---- MODULE Spec2Model ----
(***************************************************************************)
(* Answer-extraction and ensemble-decision pipeline of the LLM evaluation  *)
(* harness (computer/LLM): the numeric canonicalizer, the voter, the       *)
(* declarative equation extractor and the symbolic solver.                 *)
(*                                                                         *)
(* A Python str is modelled as a sequence of one-character strings.        *)
(***************************************************************************)
EXTENDS Integers, Sequences, FiniteSets, TLC

VARIABLES
    cv_pc,      \* canonicalizer: "call" | "done" | "again"
    cv_input,   \* canonicalizer: the argument input_value (a Python value)
    cv_output,  \* canonicalizer: outcome of extract_and_format_value(input_value)
    cv_again,   \* canonicalizer: outcome of applying it to its own output
    vt_pc,      \* voter: "call" | "done"
    vt_table,   \* voter: the items (key, freq) of the frequency dict, in insertion order
    vt_rng,     \* voter: state of the random source (module random)
    vt_draws,   \* voter: number of draws taken from the random source
    vt_pool,    \* voter: the list handed to random.choice, <<>> if none was
    vt_result,  \* voter: the (answer, method) pair returned
    dc_pc,          \* declarative run: "extract" | "solve" | "format" | "done"
    dc_prediction,  \* declarative run: the text of the LLM's prediction
    dc_equations,   \* declarative run: the argument of get_final_using_sympy
    dc_answer,      \* declarative run: outcome of get_final_using_sympy
    dc_concise,     \* declarative run: outcome of the concise prediction
    sv_pc,          \* variable simplification: "call" | "done"
    sv_equations,   \* variable simplification: the argument equations
    sv_names,       \* variable simplification: the list long_var_names of line 20
    sv_result,      \* variable simplification: outcome of simplify_variables
    sm_pc,          \* sample: "engine" | "consume" | "execute" | "conclude" | "done"
    sm_version,     \* sample: "v2" | "v3"
    sm_method,      \* sample: the solving strategy
    sm_cpp,         \* sample: the engine is the C++ binary (else the Python API)
    sm_engine,      \* sample: what the engine call does
    sm_prediction,  \* sample: the text run_llm returns for the sample
    sm_code,        \* sample: the argument of run_code_with_subprocess_timeout
    sm_process,     \* sample: what the child process does
    sm_executed,    \* sample: outcome of run_code_with_subprocess_timeout
    sm_concise,     \* sample: outcome of the concise prediction
    sm_tempfile,    \* sample: the script file, "none" | "exists" | "removed"
    bt_pc,          \* batch: "idle" | "run_llm" | "consume" | "returned" | "raised"
    bt_method,      \* batch: "cot" | "declarative" | "pal" | "decider"
    bt_cpp,         \* batch: the cpp argument of run_llm
    bt_iteration,   \* batch: passes of the loop of run_llm done so far
    bt_engines,     \* batch: what the engine did at each pass
    bt_outputs,     \* batch: llm_outputs of run_llm
    bt_index,       \* batch: passes of the loop over the predictions done so far
    bt_choices,     \* batch: what the child process or the set order did at each pass
    bt_concise,     \* batch: concise_predictions
    rp_seed,        \* seeded votes: the argument of random.seed
    rp_round,       \* seeded votes: the invocation of the voter under way, 1 or 2
    rp_first        \* seeded votes: the pair the first invocation returned

canonVars == <<cv_pc, cv_input, cv_output, cv_again>>

voterVars == <<vt_pc, vt_table, vt_rng, vt_draws, vt_pool, vt_result>>

declVars == <<dc_pc, dc_prediction, dc_equations, dc_answer, dc_concise>>

simpVars == <<sv_pc, sv_equations, sv_names, sv_result>>

sampVars == <<sm_pc, sm_version, sm_method, sm_cpp, sm_engine, sm_prediction, sm_code,
              sm_process, sm_executed, sm_concise, sm_tempfile>>

replayVars == <<rp_seed, rp_round, rp_first>>

batchVars == <<bt_pc, bt_method, bt_cpp, bt_iteration, bt_engines, bt_outputs, bt_index,
               bt_choices, bt_concise>>

vars == <<cv_pc, cv_input, cv_output, cv_again,
          vt_pc, vt_table, vt_rng, vt_draws, vt_pool, vt_result,
          dc_pc, dc_prediction, dc_equations, dc_answer, dc_concise,
          sv_pc, sv_equations, sv_names, sv_result,
          sm_pc, sm_version, sm_method, sm_cpp, sm_engine, sm_prediction, sm_code,
          sm_process, sm_executed, sm_concise, sm_tempfile,
          rp_seed, rp_round, rp_first,
          bt_pc, bt_method, bt_cpp, bt_iteration, bt_engines, bt_outputs, bt_index,
          bt_choices, bt_concise>>

-----------------------------------------------------------------------------
(* Characters and small helpers                                            *)

Digits == {"0", "1", "2", "3", "4", "5", "6", "7", "8", "9"}

DigitChars == <<"0", "1", "2", "3", "4", "5", "6", "7", "8", "9">>

DigitVal(c) == CHOOSE v \in 0..9 : DigitChars[v + 1] = c

\* str.isdigit() on the characters of the model (ASCII)
isdigit(c) == c \in Digits

\* s[::-1]
Reverse(s) == [i \in 1..Len(s) |-> s[Len(s) + 1 - i]]

\* str.replace(c, '') for a single character c
RemoveChar(s, c) == SelectSeq(s, LAMBDA x : x # c)

RECURSIVE StripLeadingZeros(_)
StripLeadingZeros(ds) ==
    IF ds # <<>> /\ Head(ds) = "0" THEN StripLeadingZeros(Tail(ds)) ELSE ds

RECURSIVE StripTrailingZeros(_)
StripTrailingZeros(ds) ==
    IF ds # <<>> /\ ds[Len(ds)] = "0"
    THEN StripTrailingZeros(SubSeq(ds, 1, Len(ds) - 1))
    ELSE ds

RECURSIVE DigitsToNat(_)
DigitsToNat(ds) ==
    IF ds = <<>> THEN 0
    ELSE 10 * DigitsToNat(SubSeq(ds, 1, Len(ds) - 1)) + DigitVal(ds[Len(ds)])

RECURSIVE NatToDigits(_)
NatToDigits(n) ==
    IF n < 10 THEN <<DigitChars[n + 1]>>
    ELSE NatToDigits(n \div 10) \o <<DigitChars[(n % 10) + 1]>>

Zeros(n) == [i \in 1..n |-> "0"]

\* position of the first occurrence of c in s, 0 when absent
IndexOf(s, c) ==
    LET at == {i \in 1..Len(s) : s[i] = c}
    IN  IF at = {} THEN 0 ELSE CHOOSE i \in at : \A j \in at : i <= j

Count(s, c) == Cardinality({i \in 1..Len(s) : s[i] = c})

-----------------------------------------------------------------------------
(* Python values.  A str carries its characters; a number carries its      *)
(* decimal expansion: sign, integer digits (no leading zero) and fraction  *)
(* digits (no trailing zero).  A float of the model is a double whose      *)
(* shortest round-trip digits are this expansion.                          *)

PyValue(type, chars, neg, ip, fp, special) ==
    [type |-> type, chars |-> chars, neg |-> neg, ip |-> ip, fp |-> fp,
     inf |-> special = "inf", nan |-> special = "nan"]

PyStr(s) == PyValue("str", s, FALSE, <<>>, <<>>, "")

PyInt(neg, ip) == PyValue("int", <<>>, neg, StripLeadingZeros(ip), <<>>, "")

PyFloat(neg, ip, fp) ==
    PyValue("float", <<>>, neg, StripLeadingZeros(ip), StripTrailingZeros(fp), "")

PyInf(neg) == PyValue("float", <<>>, neg, <<>>, <<>>, "inf")

\* numpy.nan, a float
PyNaN == PyValue("float", <<>>, FALSE, <<>>, <<>>, "nan")

\* The largest number of integer digits of a finite double (DBL_MAX is about
\* 1.8e308): the decimal literal of 10^309 and anything longer converts to inf.
FloatMaxIntDigits == 309

\* float(s) for s over digits, '.', '-': the text numeric_part can hold.
\* [ok |-> FALSE] stands for ValueError.
float_of_str(s) ==
    LET neg  == s # <<>> /\ Head(s) = "-"
        body == IF neg THEN Tail(s) ELSE s
        dot  == IndexOf(body, ".")
        ipart == IF dot = 0 THEN body ELSE SubSeq(body, 1, dot - 1)
        fpart == IF dot = 0 THEN <<>> ELSE SubSeq(body, dot + 1, Len(body))
        wellformed ==
            /\ \A i \in 1..Len(ipart) : isdigit(ipart[i])
            /\ \A i \in 1..Len(fpart) : isdigit(fpart[i])
            /\ Len(ipart) + Len(fpart) >= 1
    IN  IF ~wellformed THEN [ok |-> FALSE, val |-> PyInf(FALSE)]
        ELSE IF Len(StripLeadingZeros(ipart)) > FloatMaxIntDigits
             THEN [ok |-> TRUE, val |-> PyInf(neg)]
             ELSE [ok |-> TRUE, val |-> PyFloat(neg, ipart, fpart)]

\* digit sequence + 1, with carry
RECURSIVE Increment(_)
Increment(ds) ==
    IF ds = <<>> THEN <<"1">>
    ELSE LET last == ds[Len(ds)]
             init == SubSeq(ds, 1, Len(ds) - 1)
         IN  IF last = "9" THEN Increment(init) \o <<"0">>
             ELSE init \o <<DigitChars[DigitVal(last) + 2]>>

\* the ',' option of the format specification: groups of three from the right
GroupThousands(ds) ==
    LET n == Len(ds)
        m == IF n = 0 THEN 0 ELSE n + ((n - 1) \div 3)
    IN  [j \in 1..m |->
            LET r == m + 1 - j
            IN  IF r % 4 = 0 THEN "," ELSE ds[n + 1 - (r - (r \div 4))]]

RECURSIVE Pow2Mod(_, _)
Pow2Mod(k, m) == IF k = 0 THEN 1 % m ELSE (2 * Pow2Mod(k - 1, m)) % m

\* the number of binary places k with 2^52 <= (n/d) * 2^k < 2^53, for 0 < n/d < 2^52
RECURSIVE BinaryPlaces(_, _, _)
BinaryPlaces(n, d, k) ==
    IF n < d THEN BinaryPlaces(2 * n, d, k + 1)
    ELSE IF n >= 2 * d THEN BinaryPlaces(n, 2 * d, k - 1)
    ELSE k

\* A decimal tie h + 1/2 hundredths (the value is n/200, n = 2h + 1) is decided by
\* the double that holds it: the double is exact when n/200 is a multiple of 1/8
\* (round half to even), otherwise it lies below or above the tie.
TieRoundsUp(h) ==
    LET n == 2 * h + 1
        k == BinaryPlaces(n, 200, 52)
        r == ((n % 200) * Pow2Mod(k, 200)) % 200
    IN  IF n % 25 = 0 THEN h % 2 = 1 ELSE r > 100

\* "{:,.2f}".format(v) for a float v
format_2f(v) ==
    IF v.nan THEN <<"n", "a", "n">>
    ELSE IF v.inf THEN (IF v.neg THEN <<"-">> ELSE <<>>) \o <<"i", "n", "f">>
    ELSE
    LET fp2  == SubSeq(v.fp \o <<"0", "0">>, 1, 2)
        rest == SubSeq(v.fp, 3, Len(v.fp))
        hund == v.ip \o fp2
        up   == IF rest = <<>> THEN FALSE
                ELSE IF DigitVal(rest[1]) > 5 THEN TRUE
                ELSE IF DigitVal(rest[1]) < 5 THEN FALSE
                ELSE IF Len(rest) > 1 THEN TRUE
                ELSE TieRoundsUp(DigitsToNat(hund))
        rounded == IF up THEN Increment(hund) ELSE hund
        ipart == StripLeadingZeros(SubSeq(rounded, 1, Len(rounded) - 2))
        fpart == SubSeq(rounded, Len(rounded) - 1, Len(rounded))
    IN  (IF v.neg THEN <<"-">> ELSE <<>>)
        \o GroupThousands(IF ipart = <<>> THEN <<"0">> ELSE ipart)
        \o <<".">> \o fpart

-----------------------------------------------------------------------------
(* Numeric canonicalizer: utils.extract_and_format_value (v2 and v3 are    *)
(* the same text)                                                          *)

Bug == <<"b", "u", "g">>

\* repr of a float: shortest digits ds with the decimal point after decpt of them;
\* exponent notation when decpt > 16 or decpt < -3
float_repr(v) ==
    IF v.nan THEN <<"n", "a", "n">>
    ELSE IF v.inf THEN (IF v.neg THEN <<"-">> ELSE <<>>) \o <<"i", "n", "f">>
    ELSE
    LET sign   == IF v.neg THEN <<"-">> ELSE <<>>
        lead   == Len(v.fp) - Len(StripLeadingZeros(v.fp))
        ds     == IF v.ip # <<>> THEN StripTrailingZeros(v.ip \o v.fp)
                  ELSE StripLeadingZeros(v.fp)
        decpt  == IF v.ip # <<>> THEN Len(v.ip) ELSE 0 - lead
        e      == decpt - 1
        abse   == IF e < 0 THEN 0 - e ELSE e
        expo   == <<"e", IF e < 0 THEN "-" ELSE "+">>
                  \o (IF abse < 10 THEN <<"0">> ELSE <<>>) \o NatToDigits(abse)
    IN  IF ds = <<>> THEN sign \o <<"0", ".", "0">>
        ELSE IF decpt > 16 \/ decpt < -3
        THEN sign \o <<ds[1]>>
             \o (IF Len(ds) > 1 THEN <<".">> \o Tail(ds) ELSE <<>>) \o expo
        ELSE sign
             \o (IF v.ip = <<>> THEN <<"0">> ELSE v.ip)
             \o <<".">>
             \o (IF v.fp = <<>> THEN <<"0">> ELSE v.fp)

\* str(input_value) of lines 101-102
str_of(v) ==
    IF v.type = "str" THEN v.chars
    ELSE IF v.type = "int"
    THEN (IF v.neg THEN <<"-">> ELSE <<>>) \o (IF v.ip = <<>> THEN <<"0">> ELSE v.ip)
    ELSE float_repr(v)

\* one iteration of the for loop of lines 106-116 on char, from the loop's state
\* (found_digit, numeric_part_reversed); broke records a break
scan_step(st, char) ==
    IF st.broke THEN st
    ELSE IF isdigit(char) \/ (char = "." /\ st.found_digit)
    THEN [st EXCEPT !.found_digit = TRUE,
                    !.numeric_part_reversed = Append(@, char)]
    ELSE IF char = "," /\ st.found_digit
    THEN st
    ELSE IF char = "-" /\ st.found_digit
    THEN [st EXCEPT !.numeric_part_reversed = Append(@, char), !.broke = TRUE]
    ELSE IF st.found_digit
    THEN [st EXCEPT !.broke = TRUE]
    ELSE st

\* the iterations over reversed_input[lo..hi], in order
RECURSIVE scan_range(_, _, _, _)
scan_range(reversed_input, lo, hi, st) ==
    IF lo > hi THEN st
    ELSE IF lo = hi THEN scan_step(st, reversed_input[lo])
    ELSE LET mid  == (lo + hi) \div 2
             left == scan_range(reversed_input, lo, mid, st)
         IN  IF left.broke THEN left
             ELSE scan_range(reversed_input, mid + 1, hi, left)

\* lines 103-116
scan_reversed(reversed_input) ==
    scan_range(reversed_input, 1, Len(reversed_input),
               [found_digit |-> FALSE, numeric_part_reversed |-> <<>>, broke |-> FALSE]
              ).numeric_part_reversed

\* numeric_part of line 117
numeric_part_of(input_value) ==
    Reverse(scan_reversed(Reverse(str_of(input_value))))

\* a handler written for the wrong exception class
Mutant_CaughtTypeErrorOnly == {"TypeError"}

\* the try/except of lines 118-122: the exceptions the handler catches
CaughtByCanonicalizer == {"ValueError"}

\* An outcome is the value returned, or the exception that escapes.
Returned(v) == [raised |-> "none", value |-> v]

Raised(e) == [raised |-> e, value |-> <<>>]

extract_and_format_value(input_value) ==
    LET parsed == float_of_str(RemoveChar(numeric_part_of(input_value), ","))
    IN  IF parsed.ok THEN Returned(format_2f(parsed.val))
        ELSE IF "ValueError" \in CaughtByCanonicalizer THEN Returned(Bug)
        ELSE Raised("ValueError")

-----------------------------------------------------------------------------
(* Voter: utils.select_mode_or_sample.  The v3 function receives the       *)
(* frequencies; the v2 function receives the supporting predictions of     *)
(* each answer and takes their number (line 78), then runs the same text.  *)
(* A dict is the sequence of its items in insertion order.                 *)

Max(S) == CHOOSE x \in S : \A y \in S : y <= x

Min(S) == CHOOSE x \in S : \A y \in S : x <= y

Values(items) == {items[i].freq : i \in 1..Len(items)}

Keys(items) == {items[i].key : i \in 1..Len(items)}

\* a mix-up of max and min
Mutant_min_frequency(items) == Min(Values(items))

\* max_frequency of line 134
max_frequency(items) == Max(Values(items))

\* every key taken for a mode
Mutant_all_modes(items) == [i \in 1..Len(items) |-> items[i].key]

\* modes of line 135, in dict order
modes_of(items) ==
    LET top == SelectSeq(items, LAMBDA it : it.freq = max_frequency(items))
    IN  [i \in 1..Len(top) |-> top[i].key]

ItemOf(items, k) == items[CHOOSE i \in 1..Len(items) : items[i].key = k]

RECURSIVE Repeated(_, _, _)
\* [mode for mode in modes for _ in range(freq[mode])]
Repeated(items, ms, i) ==
    IF i > Len(ms) THEN <<>>
    ELSE [j \in 1..ItemOf(items, ms[i]).freq |-> ms[i]] \o Repeated(items, ms, i + 1)

\* weighted_modes of line 143
weighted_modes(items) == Repeated(items, modes_of(items), 1)

\* largest frequency of the enumerated tables
MaxFreq == 3

\* the canonical answers the enumerated tables are built from
Answers == {"10.00", "12.00", "7.00"}

\* states of the random source: enough for every position of a pool to be drawn
RngStates == Cardinality(Answers) * MaxFreq

\* random.choice(seq) with the random source in state rng: the element drawn is a
\* function of the state and of len(seq), and the state moves on
random_choice(seq, rng) ==
    [value |-> seq[(rng % Len(seq)) + 1], rng |-> (rng + 1) % RngStates]

\* a seeding that adds to the state it finds
Mutant_seeded_state(seed, state) == (state + seed) % RngStates

\* random.seed(seed) on the module's random source in some state: the new state
\* is a function of the seed alone
seeded_state(seed, state) == seed % RngStates

\* lines 134-146: the pair returned, with the random source and the pool drawn from
select_mode_or_sample(items, rng) ==
    LET modes == modes_of(items)
    IN  IF Len(modes) = 1
        THEN [result |-> <<modes[1], "mode">>, rng |-> rng, draws |-> 0, pool |-> <<>>]
        ELSE LET drawn == random_choice(weighted_modes(items), rng)
             IN  [result |-> <<drawn.value, "sampling">>, rng |-> drawn.rng,
                  draws |-> 1, pool |-> weighted_modes(items)]

\* a pool of the most frequent answers only
Mutant_weighted_answers(items) == weighted_modes(items)

\* weighted_answers of line 158: every key, as many times as it has supporting
\* predictions (freq is len(details)), in dict order
weighted_answers(items) == Repeated(items, [i \in 1..Len(items) |-> items[i].key], 1)

\* lines 158-161: the pair returned, with the random source and the pool drawn from
sample_based_on_frequency(items, rng) ==
    [result |-> <<random_choice(weighted_answers(items), rng).value, "sampling">>,
     rng    |-> random_choice(weighted_answers(items), rng).rng,
     draws  |-> 1,
     pool   |-> weighted_answers(items)]

-----------------------------------------------------------------------------
(* Rational numbers and linear expressions: the values the algebra engine  *)
(* (sympy) computes with in the model.  An expression is a linear form     *)
(* c + sum of k[x] * x over the letters x of its domain.                   *)

RECURSIVE GCD(_, _)
GCD(a, b) == IF b = 0 THEN a ELSE GCD(b, a % b)

Abs(n) == IF n < 0 THEN 0 - n ELSE n

Rat(n, d) ==
    LET g == GCD(Abs(n), Abs(d))
        s == IF d < 0 THEN 0 - 1 ELSE 1
    IN  [n |-> (s * n) \div g, d |-> Abs(d) \div g]

RZero == [n |-> 0, d |-> 1]

ROne == [n |-> 1, d |-> 1]

RAdd(a, b) == Rat(a.n * b.d + b.n * a.d, a.d * b.d)

RNeg(a) == [n |-> 0 - a.n, d |-> a.d]

RMul(a, b) == Rat(a.n * b.n, a.d * b.d)

RDiv(a, b) == Rat(a.n * b.d, a.d * b.n)

LConst(r) == [c |-> r, k |-> [x \in {} |-> RZero]]

LVar(x) == [c |-> RZero, k |-> [y \in {x} |-> ROne]]

Coef(A, x) == IF x \in DOMAIN A.k THEN A.k[x] ELSE RZero

LIsConst(A) == DOMAIN A.k = {}

LAdd(A, B) ==
    LET D == {x \in DOMAIN A.k \cup DOMAIN B.k : RAdd(Coef(A, x), Coef(B, x)) # RZero}
    IN  [c |-> RAdd(A.c, B.c), k |-> [x \in D |-> RAdd(Coef(A, x), Coef(B, x))]]

LScale(A, r) ==
    IF r = RZero THEN LConst(RZero)
    ELSE [c |-> RMul(A.c, r), k |-> [x \in DOMAIN A.k |-> RMul(A.k[x], r)]]

LSub(A, B) == LAdd(A, LScale(B, RNeg(ROne)))

-----------------------------------------------------------------------------
(* Python str operations used by the declarative method                    *)

Lowercase == <<"a", "b", "c", "d", "e", "f", "g", "h", "i", "j", "k", "l", "m", "n", "o", "p", "q", "r", "s", "t", "u", "v", "w", "x", "y", "z">>

Uppercase == <<"A", "B", "C", "D", "E", "F", "G", "H", "I", "J", "K", "L", "M", "N", "O", "P", "Q", "R", "S", "T", "U", "V", "W", "X", "Y", "Z">>

Range(q) == {q[i] : i \in 1..Len(q)}

Letters == Range(Lowercase) \cup Range(Uppercase)

\* str.isalpha() of one character
isalpha(c) == c \in Letters

\* the class \w of re
WordChars == Letters \cup Digits \cup {"_"}

Whitespace == {" ", "\n", "\t"}

\* c in s, for a single character c
Contains(s, c) == \E i \in 1..Len(s) : s[i] = c

\* sub is s[i : i + len(sub)]
OccursAt(s, sub, i) ==
    /\ i + Len(sub) - 1 <= Len(s)
    /\ \A j \in 1..Len(sub) : s[i + j - 1] = sub[j]

\* sub in s
HasSub(s, sub) == \E i \in 1..(Len(s) + 1) : OccursAt(s, sub, i)

\* s.index(sub), 1-based; sub occurs in s
IndexSub(s, sub) ==
    CHOOSE i \in 1..(Len(s) + 1) :
        OccursAt(s, sub, i) /\ \A j \in 1..(i - 1) : ~OccursAt(s, sub, j)

\* s.split(c) for a single character c
RECURSIVE Split(_, _)
Split(s, c) ==
    LET i == IndexOf(s, c)
    IN  IF i = 0 THEN <<s>>
        ELSE <<SubSeq(s, 1, i - 1)>> \o Split(SubSeq(s, i + 1, Len(s)), c)

\* s.strip()
Strip(s) ==
    LET keep == {i \in 1..Len(s) : s[i] \notin Whitespace}
    IN  IF keep = {} THEN <<>>
        ELSE SubSeq(s, Min(keep), Max(keep))

\* the last position j >= i with s[i..j] all in class
RunEnd(s, i, class) ==
    Max({j \in i..Len(s) : \A m \in i..j : s[m] \in class})

\* the maximal runs of word characters of s, as <<first, last>>
WordRuns(s) ==
    {<<i, RunEnd(s, i, WordChars)>> :
        i \in {m \in 1..Len(s) : s[m] \in WordChars /\ (m = 1 \/ s[m - 1] \notin WordChars)}}

-----------------------------------------------------------------------------
(* Equation extractor and normalizer: methods/v2/declarative.py            *)

\* set(re.findall(r'\b[a-zA-Z_]\w*\b', equations)) of line 19: the maximal word
\* runs that start with a letter or an underscore
var_names_of(equations) ==
    {SubSeq(equations, r[1], r[2]) :
        r \in {w \in WordRuns(equations) : equations[w[1]] \in Letters \cup {"_"}}}

\* the names of line 20, as a set; the list's order is the iteration order of a
\* Python set of str, which the caller of simplify_variables draws
long_var_names_of(equations) == {v \in var_names_of(equations) : Len(v) > 1}

\* the letter a, as many times as there are letters
Mutant_unused_chars_of(equations) == [i \in 1..Len(Lowercase) |-> "a"]

\* unused_chars of line 21, in order a..z
unused_chars_of(equations) ==
    SelectSeq(Lowercase, LAMBDA c : <<c>> \notin var_names_of(equations))

\* the substitutions of lines 24-25: every word run that is a key of var_mapping
\* is replaced by its letter
RECURSIVE SubstituteFrom(_, _, _)
SubstituteFrom(equations, var_mapping, i) ==
    IF i > Len(equations) THEN <<>>
    ELSE IF \E r \in WordRuns(equations) : r[1] = i
    THEN LET r    == CHOOSE w \in WordRuns(equations) : w[1] = i
             word == SubSeq(equations, r[1], r[2])
         IN  (IF word \in DOMAIN var_mapping THEN <<var_mapping[word]>> ELSE word)
             \o SubstituteFrom(equations, var_mapping, r[2] + 1)
    ELSE <<equations[i]>> \o SubstituteFrom(equations, var_mapping, i + 1)

\* lines 19-26, with long_var_names the list of line 20; pop(0) on the
\* exhausted list of unused letters raises IndexError
simplify_variables(equations, long_var_names) ==
    LET unused_chars == unused_chars_of(equations)
    IN  IF Len(long_var_names) > Len(unused_chars) THEN Raised("IndexError")
        ELSE LET var_mapping ==
                     [v \in Range(long_var_names) |->
                         unused_chars[CHOOSE i \in 1..Len(long_var_names) : long_var_names[i] = v]]
             IN  Returned([equations |-> SubstituteFrom(equations, var_mapping, 1),
                           var_mapping |-> var_mapping])

\* line 38: the characters the substitution keeps
CleanKept == WordChars \cup Whitespace \cup {"=", "+", "-", "*", "/", "(", ")", ".", "[", "]"}

clean_equation_text(equation_text) == SelectSeq(equation_text, LAMBDA c : c \in CleanKept)

\* eq[2 :], the closing brackets kept
Mutant_Unwrap(eq) == SubSeq(eq, 3, Len(eq))

\* eq[2 : -2]
Unwrap(eq) == SubSeq(eq, 3, Len(eq) - 2)

\* lines 51-58
RECURSIVE reformat_incre_from(_, _, _)
reformat_incre_from(x, i, result) ==
    IF i > Len(x) THEN result
    ELSE reformat_incre_from(x, i + 1,
            IF Len(result) = 0 THEN result \o Unwrap(x[i])
            ELSE result \o <<",", " ">> \o Unwrap(x[i]))

reformat_incre_equations(x) == reformat_incre_from(x, 1, <<>>)

EqTag == <<"e", "q">>

AnswerTag == <<"a", "n", "s", "w", "e", "r">>

\* one iteration of the loop of lines 71-81
peano_step(result, eq) ==
    IF HasSub(eq, EqTag)
    THEN LET piece == SubSeq(eq, IndexSub(eq, EqTag) + 2, Len(eq))
         IN  IF Len(result) = 0 THEN result \o piece
             ELSE result \o <<",", " ">> \o piece
    ELSE IF HasSub(eq, AnswerTag)
    THEN LET piece == Strip(SubSeq(eq, IndexSub(eq, AnswerTag) + 6, Len(eq))) \o <<" ", "=", " ", "?">>
         IN  IF Len(result) = 0 THEN result \o piece
             ELSE result \o <<",", " ">> \o piece
    ELSE result

RECURSIVE peano_from(_, _, _)
peano_from(parts, i, result) ==
    IF i > Len(parts) THEN result
    ELSE peano_from(parts, i + 1, peano_step(result, parts[i]))

\* lines 70-82
reformat_equations_from_peano(eq_list) == peano_from(Split(eq_list, ","), 1, <<>>)

OpenTag == <<"[", "[">>

CloseTag == <<"]", "]">>

\* re.findall(r'\[\[.*?\]\]', prediction) of line 94, from position i: the
\* leftmost [[, then the nearest ]] with no newline in between
RECURSIVE findall_from(_, _)
findall_from(prediction, i) ==
    LET opens == {m \in i..Len(prediction) :
                    /\ OccursAt(prediction, OpenTag, m)
                    /\ \E j \in (m + 2)..Len(prediction) :
                          /\ OccursAt(prediction, CloseTag, j)
                          /\ \A n \in (m + 2)..(j - 1) : prediction[n] # "\n"}
    IN  IF opens = {} THEN <<>>
        ELSE LET m == Min(opens)
                 j == Min({n \in (m + 2)..Len(prediction) : OccursAt(prediction, CloseTag, n)})
             IN  <<SubSeq(prediction, m, j + 1)>> \o findall_from(prediction, j + 2)

\* the prediction with its outer whitespace removed
Mutant_no_equations_found(prediction) == Strip(prediction)

\* line 105: what is returned when findall finds nothing
no_equations_found(prediction) == prediction

\* lines 94-105
get_declarative_equations(prediction) ==
    LET eq_list == findall_from(prediction, 1)
        cleaned_eq_list == [i \in 1..Len(eq_list) |-> clean_equation_text(eq_list[i])]
    IN  IF Len(eq_list) > 0
        THEN reformat_equations_from_peano(reformat_incre_equations(cleaned_eq_list))
        ELSE no_equations_found(prediction)

-----------------------------------------------------------------------------
(* The algebra engine at its interface: sympy's parse_expr with the        *)
(* transformations of line 119, solve and float, on the expressions of the *)
(* model: integer literals, one-letter symbols, + - * /, parentheses and   *)
(* juxtaposition (implicit multiplication), linear in the symbols.  A      *)
(* result of status "outside" marks an expression beyond these.            *)

Operators == {"+", "-", "*", "/", "(", ")"}

NumTok(n) == [t |-> "num", n |-> n, s |-> ""]

VarTok(x) == [t |-> "var", n |-> 0, s |-> x]

OpTok(c) == [t |-> "op", n |-> 0, s |-> c]

\* the tokens of text from position i: digit runs, names, operators; a character
\* outside these is an error token, a name of several characters is outside
RECURSIVE Tokens(_, _)
Tokens(text, i) ==
    IF i > Len(text) THEN <<>>
    ELSE LET c == text[i] IN
         IF c \in Whitespace THEN Tokens(text, i + 1)
         ELSE IF c \in Digits
         THEN LET j == RunEnd(text, i, Digits)
              IN  <<NumTok(DigitsToNat(SubSeq(text, i, j)))>> \o Tokens(text, j + 1)
         ELSE IF c \in Letters \cup {"_"}
         THEN LET j == RunEnd(text, i, WordChars)
              IN  (IF j = i /\ c \in Range(Lowercase) THEN <<VarTok(c)>>
                   ELSE <<[t |-> "outside", n |-> 0, s |-> ""]>>)
                  \o Tokens(text, j + 1)
         ELSE IF c \in Operators THEN <<OpTok(c)>> \o Tokens(text, i + 1)
         ELSE <<[t |-> "error", n |-> 0, s |-> c]>> \o Tokens(text, i + 1)

IsOp(ts, i, c) == i <= Len(ts) /\ ts[i].t = "op" /\ ts[i].s = c

Parsed(val, pos) == [st |-> "ok", val |-> val, pos |-> pos]

ParseError == [st |-> "error", val |-> LConst(RZero), pos |-> 0]

ParseOutside == [st |-> "outside", val |-> LConst(RZero), pos |-> 0]

\* the results below pass on the first operand that is not "ok"

\* a product is linear when one factor is a number
Product(a, b) ==
    IF a.st # "ok" THEN a
    ELSE IF b.st # "ok" THEN b
    ELSE IF LIsConst(a.val) THEN Parsed(LScale(b.val, a.val.c), b.pos)
    ELSE IF LIsConst(b.val) THEN Parsed(LScale(a.val, b.val.c), b.pos)
    ELSE ParseOutside

Quotient(a, b) ==
    IF a.st # "ok" THEN a
    ELSE IF b.st # "ok" THEN b
    ELSE IF LIsConst(b.val) /\ b.val.c # RZero
    THEN Parsed(LScale(a.val, RDiv(ROne, b.val.c)), b.pos)
    ELSE ParseOutside

Sum(a, b) ==
    IF a.st # "ok" THEN a
    ELSE IF b.st # "ok" THEN b
    ELSE Parsed(LAdd(a.val, b.val), b.pos)

Difference(a, b) ==
    IF a.st # "ok" THEN a
    ELSE IF b.st # "ok" THEN b
    ELSE Parsed(LSub(a.val, b.val), b.pos)

Negated(r) ==
    IF r.st # "ok" THEN r ELSE Parsed(LScale(r.val, RNeg(ROne)), r.pos)

\* r, then the closing parenthesis
Closed(ts, r) ==
    IF r.st # "ok" THEN r
    ELSE IF IsOp(ts, r.pos, ")") THEN Parsed(r.val, r.pos + 1)
    ELSE ParseError

NoAcc == ParseError

\* the grammar, one rule per call:
\*   atom:   number | symbol | ( expr )
\*   factor: (+|-) factor | atom
\*   term:   factor ((* | / | juxtaposition) factor)*
\*   expr:   term ((+ | -) term)*
\* rules "term_rest" and "expr_rest" continue from the result acc so far, the
\* other rules start at token i
RECURSIVE p_rule(_, _, _, _)
p_rule(rule, ts, i, acc) ==
    CASE rule = "atom" ->
            IF i > Len(ts) THEN ParseError
            ELSE IF ts[i].t = "num" THEN Parsed(LConst(Rat(ts[i].n, 1)), i + 1)
            ELSE IF ts[i].t = "var" THEN Parsed(LVar(ts[i].s), i + 1)
            ELSE IF IsOp(ts, i, "(") THEN Closed(ts, p_rule("expr", ts, i + 1, NoAcc))
            ELSE ParseError
      [] rule = "factor" ->
            IF IsOp(ts, i, "-") THEN Negated(p_rule("factor", ts, i + 1, NoAcc))
            ELSE IF IsOp(ts, i, "+") THEN p_rule("factor", ts, i + 1, NoAcc)
            ELSE p_rule("atom", ts, i, NoAcc)
      [] rule = "term_rest" ->
            IF acc.st # "ok" THEN acc
            ELSE IF IsOp(ts, acc.pos, "*")
            THEN p_rule("term_rest", ts, 0,
                        Product(acc, p_rule("factor", ts, acc.pos + 1, NoAcc)))
            ELSE IF IsOp(ts, acc.pos, "/")
            THEN p_rule("term_rest", ts, 0,
                        Quotient(acc, p_rule("factor", ts, acc.pos + 1, NoAcc)))
            ELSE IF acc.pos <= Len(ts)
                    /\ (ts[acc.pos].t \in {"num", "var"} \/ IsOp(ts, acc.pos, "("))
            THEN p_rule("term_rest", ts, 0,
                        Product(acc, p_rule("atom", ts, acc.pos, NoAcc)))
            ELSE acc
      [] rule = "term" ->
            p_rule("term_rest", ts, 0, p_rule("factor", ts, i, NoAcc))
      [] rule = "expr_rest" ->
            IF acc.st # "ok" THEN acc
            ELSE IF IsOp(ts, acc.pos, "+")
            THEN p_rule("expr_rest", ts, 0,
                        Sum(acc, p_rule("term", ts, acc.pos + 1, NoAcc)))
            ELSE IF IsOp(ts, acc.pos, "-")
            THEN p_rule("expr_rest", ts, 0,
                        Difference(acc, p_rule("term", ts, acc.pos + 1, NoAcc)))
            ELSE acc
      [] rule = "expr" ->
            p_rule("expr_rest", ts, 0, p_rule("term", ts, i, NoAcc))

\* the whole of ts is one expression
p_whole(ts, r) ==
    IF r.st # "ok" THEN r
    ELSE IF r.pos # Len(ts) + 1 THEN ParseError
    ELSE r

p_tokens(ts) ==
    IF \E i \in 1..Len(ts) : ts[i].t = "outside" THEN ParseOutside
    ELSE IF \E i \in 1..Len(ts) : ts[i].t = "error" THEN ParseError
    ELSE p_whole(ts, p_rule("expr", ts, 1, NoAcc))

\* parse_expr(text, transformations=transformations): the expression, "error"
\* when the call raises, "outside" beyond the model
parse_expr(text) == p_tokens(Tokens(text, 1))

\* the symbols of a list of expressions
SymbolsOf(exprs) == UNION {DOMAIN exprs[i].k : i \in 1..Len(exprs)}

\* the equations e = 0 left after the symbols of V are eliminated from E
RECURSIVE Eliminate(_, _)
Eliminate(E, V) ==
    IF V = {} THEN E
    ELSE LET x == CHOOSE v \in V : TRUE
             P == {e \in E : Coef(e, x) # RZero}
         IN  IF P = {} THEN Eliminate(E, V \ {x})
             ELSE LET piv == CHOOSE e \in P : TRUE
                  IN  Eliminate({LSub(e, LScale(piv, RDiv(Coef(e, x), Coef(piv, x)))) :
                                     e \in E \ {piv}},
                                V \ {x})

\* solve(exprs)[Symbol(goal_var)] as a number: the value of the goal symbol when
\* the linear system exprs = 0 is consistent and determines it; [ok |-> FALSE]
\* when the lookup or the conversion to float raises
solve_for(exprs, goal_var) ==
    LET left  == Eliminate(Range(exprs), SymbolsOf(exprs) \ {goal_var})
        fixes == {e \in left : Coef(e, goal_var) # RZero}
        value == LET e == CHOOSE f \in fixes : TRUE
                 IN  RNeg(RDiv(e.c, Coef(e, goal_var)))
    IN  IF fixes = {} THEN [ok |-> FALSE, val |-> RZero]
        ELSE IF \A e \in left : RAdd(RMul(Coef(e, goal_var), value), e.c) = RZero
        THEN [ok |-> TRUE, val |-> value]
        ELSE [ok |-> FALSE, val |-> RZero]

\* the fraction digits of r/d, at most n of them; <<"?">> is appended when the
\* expansion does not end within n digits
RECURSIVE FractionDigits(_, _, _)
FractionDigits(r, d, n) ==
    IF r = 0 THEN <<>>
    ELSE IF n = 0 THEN <<"?">>
    ELSE <<DigitChars[((10 * r) \div d) + 1]>> \o FractionDigits((10 * r) % d, d, n - 1)

\* float(q) of a rational q: the double of that value
float_of_rat(q) ==
    PyFloat(q.n < 0,
            NatToDigits(Abs(q.n) \div q.d),
            FractionDigits(Abs(q.n) % q.d, q.d, 12))

-----------------------------------------------------------------------------
(* Symbolic solver: declarative.get_final_using_sympy                      *)

InvalidEquations == PyStr(<<"i", "n", "v", "a", "l", "i", "d", " ", "e", "q", "u", "a", "t", "i", "o", "n", "s">>)

NoGoalFound == PyStr(<<"n", "o", " ", "g", "o", "a", "l", " ", "f", "o", "u", "n", "d">>)

NoSolution == PyStr(<<"n", "o", " ", "s", "o", "l", "u", "t", "i", "o", "n">>)

BugTag == PyStr(Bug)

FailureTags == {InvalidEquations, NoGoalFound, NoSolution, BugTag}

\* a result the model of the algebra engine does not cover
OutsideModel == PyStr(<<"outside">>)

\* a handler that names one exception class only
Mutant_CaughtValueErrorOnly == {"ValueError"}

\* "except Exception" of line 182: every exception raised in the body
CaughtBySolver == {"TypeError", "IndexError", "SyntaxError", "ValueError", "KeyError"}

IsAlphaStr(s) == Len(s) > 0 /\ \A i \in 1..Len(s) : isalpha(s[i])

\* lines 123-127: three alphabetic characters in a row in some equation
ThreeLetters(equation_list) ==
    \E n \in 1..Len(equation_list) :
        \E c \in 1..(Len(equation_list[n]) - 2) :
            /\ isalpha(equation_list[n][c])
            /\ isalpha(equation_list[n][c + 1])
            /\ isalpha(equation_list[n][c + 2])

\* lhs - (rhs), the text of lines 140 and 166
Minus(lhs, rhs) == lhs \o <<" ", "-", " ", "(">> \o rhs \o <<")">>

\* the loop of lines 135-138: the first letter, a..z then A..Z, not in the last
\* equation; <<>> when every letter is in it
FirstUnusedLetter(eq) ==
    LET all  == Lowercase \o Uppercase
        free == {i \in 1..Len(all) : ~Contains(eq, all[i])}
    IN  IF free = {} THEN <<>> ELSE <<all[Min(free)]>>

\* Symbol(goal_var) as a symbol of the model: a name of one letter
GoalSymbol(goal_var) == IF Len(goal_var) = 1 THEN goal_var[1] ELSE "no such symbol"

\* lines 173-179: the answer when the list determines the goal, else the
\* next equation
RECURSIVE incremental_solve(_, _, _, _)
after_solve(equation_list, i, goal_var, goal_expression_list, solved) ==
    IF solved.ok THEN Returned(float_of_rat(solved.val))
    ELSE incremental_solve(equation_list, i + 1, goal_var, goal_expression_list)

\* lines 170-177
append_and_solve(equation_list, i, goal_var, goal_expression_list) ==
    after_solve(equation_list, i, goal_var, goal_expression_list,
                solve_for(goal_expression_list, GoalSymbol(goal_var)))

\* lines 164-170, sub_eqs parsed
after_parse(equation_list, i, goal_var, goal_expression_list, parsed) ==
    IF parsed.st = "outside" THEN Returned(OutsideModel)
    ELSE IF parsed.st = "error" THEN Returned(InvalidEquations)
    ELSE append_and_solve(equation_list, i, goal_var,
                          Append(goal_expression_list, parsed.val))

\* lines 164-166, sub_eqs split at "="
after_split(equation_list, i, goal_var, goal_expression_list, sub_eqs_split) ==
    IF Len(sub_eqs_split) < 2 THEN Returned(InvalidEquations)
    ELSE after_parse(equation_list, i, goal_var, goal_expression_list,
                     parse_expr(Minus(Strip(sub_eqs_split[1]), Strip(sub_eqs_split[2]))))

\* a loop that runs over the last equation too: range(len(equation_list))
Mutant_incremental_solve(equation_list, i, goal_var, goal_expression_list) ==
    IF i > Len(equation_list) THEN Returned(NoSolution)
    ELSE IF Contains(equation_list[i], "?")
    THEN incremental_solve(equation_list, i + 1, goal_var, goal_expression_list)
    ELSE after_split(equation_list, i, goal_var, goal_expression_list,
                     Split(equation_list[i], "="))

\* the loop of lines 161-179 from equation i, then line 181
incremental_solve(equation_list, i, goal_var, goal_expression_list) ==
    IF i > Len(equation_list) - 1 THEN Returned(NoSolution)
    ELSE IF Contains(equation_list[i], "?")
    THEN incremental_solve(equation_list, i + 1, goal_var, goal_expression_list)
    ELSE after_split(equation_list, i, goal_var, goal_expression_list,
                     Split(equation_list[i], "="))

\* the text after the last "=" instead
Mutant_shortcut_expression(equation) ==
    LET parts == Split(equation, "=") IN parts[Len(parts)]

\* line 153: the text the single-equation shortcut parses
shortcut_expression(equation) == Split(equation, "=")[1]

\* lines 152-156, the expression parsed
single_equation(parsed) ==
    IF parsed.st = "outside" THEN Returned(OutsideModel)
    ELSE IF parsed.st = "ok" /\ LIsConst(parsed.val)
    THEN Returned(float_of_rat(parsed.val.c))
    ELSE Returned(InvalidEquations)

\* the no-goal check of line 158 made before the shortcut of line 151
Mutant_solve_with_goal(equation_list, goal_var, goal_expression_list) ==
    IF goal_var = <<>> THEN Returned(NoGoalFound)
    ELSE IF Len(equation_list) = 1
    THEN single_equation(parse_expr(shortcut_expression(equation_list[1])))
    ELSE incremental_solve(equation_list, 1, goal_var, goal_expression_list)

\* lines 151-181, once the goal variable is settled (<<>> is None)
solve_with_goal(equation_list, goal_var, goal_expression_list) ==
    IF Len(equation_list) = 1
    THEN single_equation(parse_expr(shortcut_expression(equation_list[1])))
    ELSE IF goal_var = <<>> THEN Returned(NoGoalFound)
    ELSE incremental_solve(equation_list, 1, goal_var, goal_expression_list)

\* the function returned during the goal detection
Finished(outcome) ==
    [finished |-> TRUE, outcome |-> outcome, goal_var |-> <<>>, list |-> <<>>]

\* the goal detection ended with this goal variable and expression list
Goal(goal_var, list) ==
    [finished |-> FALSE, outcome |-> Returned(NoSolution), goal_var |-> goal_var,
     list |-> list]

\* lines 143-147
immediate_solve(goal_var, goal_expression, solved) ==
    IF solved.ok THEN Finished(Returned(float_of_rat(solved.val)))
    ELSE Goal(goal_var, <<goal_expression>>)

\* lines 141-147, goal_expression parsed
goal_parsed(goal_var, parsed) ==
    IF parsed.st = "outside" THEN Finished(Returned(OutsideModel))
    ELSE IF parsed.st = "error" THEN Finished(Raised("SyntaxError"))
    ELSE immediate_solve(goal_var, parsed.val, solve_for(<<parsed.val>>, goal_var[1]))

\* lines 139-149
synthetic_goal(goal_var, lhs) ==
    IF goal_var = <<>> THEN Finished(Returned(InvalidEquations))
    ELSE goal_parsed(goal_var, parse_expr(Minus(goal_var, lhs)))

\* a left-hand side of up to two characters taken for the goal variable
Mutant_goal_detection(last, lhs) ==
    IF IsAlphaStr(lhs) \/ Len(lhs) <= 2 THEN Goal(lhs, <<>>)
    ELSE IF Contains(last, "=") THEN synthetic_goal(FirstUnusedLetter(last), lhs)
    ELSE Goal(<<>>, <<>>)

\* lines 132-149: last is equation_list[-1], lhs its stripped text before "="
goal_detection(last, lhs) ==
    IF IsAlphaStr(lhs) \/ Len(lhs) = 2 THEN Goal(lhs, <<>>)
    ELSE IF Contains(last, "=") THEN synthetic_goal(FirstUnusedLetter(last), lhs)
    ELSE Goal(<<>>, <<>>)

\* lines 151-181 after the goal detection
after_goal_detection(equation_list, goal) ==
    IF goal.finished THEN goal.outcome
    ELSE solve_with_goal(equation_list, goal.goal_var, goal.list)

\* lines 123-181
solve_equation_list(equation_list) ==
    IF ThreeLetters(equation_list) THEN Returned(InvalidEquations)
    ELSE after_goal_detection(equation_list,
            goal_detection(equation_list[Len(equation_list)],
                           Strip(Split(equation_list[Len(equation_list)], "=")[1])))

\* lines 120-181, the variables simplified
after_simplify(simplified) ==
    IF simplified.raised # "none" THEN simplified
    ELSE IF simplified.value.equations = <<"n", "a", "n">> THEN Returned(PyNaN)
    ELSE solve_equation_list(Split(simplified.value.equations, ","))

\* the body of the try of lines 118-181; long_var_names is the list of line 20
solver_body(equations, long_var_names) ==
    IF equations.type # "str" THEN Raised("TypeError")
    ELSE after_simplify(simplify_variables(equations.chars, long_var_names))

\* lines 117 and 182-184: what the function does with the outcome of its body
handle_exception(body) ==
    IF body.raised = "none" THEN body
    ELSE IF body.raised \in CaughtBySolver THEN Returned(BugTag)
    ELSE body

\* lines 107-184
get_final_using_sympy(equations, long_var_names) ==
    handle_exception(solver_body(equations, long_var_names))

\* the number handed on as str() prints it
Mutant_concise_prediction_of(predicted_answer) ==
    IF predicted_answer \in FailureTags THEN Returned(Bug)
    ELSE Returned(str_of(predicted_answer))

\* lines 211-214 of run_declarative: the concise prediction of one answer
concise_prediction_of(predicted_answer) ==
    IF predicted_answer \in FailureTags THEN Returned(Bug)
    ELSE extract_and_format_value(predicted_answer)

-----------------------------------------------------------------------------
(* One sample: the generation engine (run_llm, v2 and v3) and the solving  *)
(* strategies that consume its output.  The engine and the child process   *)
(* of the program-aided strategy are the environment: what they do is an   *)
(* input of the model.                                                     *)

\* s.replace(sub, "")
RECURSIVE RemoveSub(_, _)
RemoveSub(s, sub) ==
    IF ~HasSub(s, sub) THEN s
    ELSE SubSeq(s, 1, IndexSub(s, sub) - 1)
         \o RemoveSub(SubSeq(s, IndexSub(s, sub) + Len(sub), Len(s)), sub)

\* s.split(sep)[-1]
RECURSIVE AfterLast(_, _)
AfterLast(s, sep) ==
    IF ~HasSub(s, sep) THEN s
    ELSE AfterLast(SubSeq(s, IndexSub(s, sep) + Len(sep), Len(s)), sep)

\* the prompt handed to the engine
Message == <<"Q", ":", " ", "q", "\n", "A", ":", " ">>

StopMark == <<"Q", ":">>

AssistantStart == <<"<", "|", "a", "s", "s", "i", "s", "t", "a", "n", "t", "|", ">">>

\* line 172 of utils/v2: what stands for the output of a failed call
EngineFailureV2 == <<"-", "1">>

\* line 223 of utils/v3
EngineFailureV3 == Bug

\* an engine call: it returns text (with an exit code when it is the binary)
\* or raises
EngineReturns(text, returncode) == [kind |-> "returns", text |-> text, returncode |-> returncode]

EngineRaises == [kind |-> "raises", text |-> <<>>, returncode |-> 0]

\* utils/v2 run_llm, one iteration of the loop of lines 159-206
run_llm_v2(cpp, engine) ==
    IF engine.kind = "raises" THEN EngineFailureV2
    ELSE IF ~cpp THEN Strip(engine.text)
    ELSE IF engine.returncode = 0
    THEN Strip(RemoveSub(RemoveSub(engine.text, Message), StopMark))
    ELSE EngineFailureV2

\* utils/v3 run_llm, lines 209-260
run_llm_v3(cpp, engine) ==
    IF engine.kind = "raises" THEN EngineFailureV3
    ELSE IF ~cpp THEN Strip(engine.text)
    ELSE IF engine.returncode = 0
    THEN Strip(RemoveSub(RemoveSub(AfterLast(engine.text, AssistantStart), Message), StopMark))
    ELSE EngineFailureV3

TheAnswerIs == <<"T", "h", "e", " ", "a", "n", "s", "w", "e", "r", " ", "i", "s", " ">>

\* run_cot lines 25-26 (v2), 24-25 (v3), and run_zero_shot lines 25-26
cot_concise(prediction) ==
    extract_and_format_value(PyStr(Strip(AfterLast(prediction, TheAnswerIs))))

DefSolution == <<"d", "e", "f", " ", "s", "o", "l", "u", "t", "i", "o", "n">>

ReturnResult == <<"r", "e", "t", "u", "r", "n", " ", "r", "e", "s", "u", "l", "t">>

\* the last position of the line that holds position k
LineEnd(text, k) ==
    Min({n \in k..Len(text) : n = Len(text) \/ text[n + 1] = "\n"})

\* run_pal lines 63-65: the first match of
\* (def solution.*?return result[^\n]*) with DOTALL, or ""
pal_code(prediction) ==
    LET starts == {i \in 1..Len(prediction) :
                     /\ OccursAt(prediction, DefSolution, i)
                     /\ \E j \in (i + Len(DefSolution))..Len(prediction) :
                           OccursAt(prediction, ReturnResult, j)}
        first(i) == Min({j \in (i + Len(DefSolution))..Len(prediction) :
                           OccursAt(prediction, ReturnResult, j)})
    IN  IF starts = {} THEN <<>>
        ELSE SubSeq(prediction, Min(starts),
                    LineEnd(prediction, first(Min(starts)) + Len(ReturnResult) - 1))

\* a character the encoding of the script file cannot write (a lone
\* surrogate such as U+D800)
Surrogate == "U+D800"

\* what the child process of line 24 does: it exits with a code and an
\* output, it is still running at the timeout, or it cannot be started
Exited(returncode, stdout) == [kind |-> "exited", returncode |-> returncode, stdout |-> stdout]

TimedOut == [kind |-> "timeout", returncode |-> 0, stdout |-> <<>>]

NotStarted == [kind |-> "error", returncode |-> 0, stdout |-> <<>>]

\* program_aided_lm.run_code_with_subprocess_timeout, lines 19-39: the
\* script is written to a file (lines 20-22, before the try), then run
run_code_with_subprocess_timeout(code, process) ==
    IF Contains(code, Surrogate) THEN Raised("UnicodeEncodeError")
    ELSE IF process.kind = "exited" /\ process.returncode = 0
    THEN Returned(Strip(process.stdout))
    ELSE Returned(Bug)

\* os.remove in the body of the try, after a child process that ended
Mutant_script_file_after(code, process) ==
    IF Contains(code, Surrogate) THEN "exists"
    ELSE IF process.kind = "exited" THEN "removed"
    ELSE "exists"

\* the script file when the call is over: created on line 20 with delete=False,
\* removed by the finally of lines 38-39 once the try is entered
script_file_after(code, process) ==
    IF Contains(code, Surrogate) THEN "exists" ELSE "removed"

\* run_pal lines 62-70: the answer of the execution, an exception included
pal_answer(executed) ==
    IF executed.raised # "none" THEN Bug ELSE executed.value

\* run_pal lines 72-73
pal_concise(predicted_answer) ==
    IF predicted_answer # Bug THEN extract_and_format_value(PyStr(predicted_answer))
    ELSE Returned(Bug)

-----------------------------------------------------------------------------
(* Inputs of the canonicalizer                                             *)

\* longest enumerated input string
MaxLen == 4

CanonAlphabet == {"0", "1", "5", "9", ".", ",", "-", "x"}

SeqsUpTo(A, n) == UNION {[1..k -> A] : k \in 0..n}

\* "The answer is $1,234.5 dollars"
AnswerSentence ==
    <<"T", "h", "e", " ", "a", "n", "s", "w", "e", "r", " ", "i", "s", " ",
      "$", "1", ",", "2", "3", "4", ".", "5", " ",
      "d", "o", "l", "l", "a", "r", "s">>

\* "no numbers here"
NoNumbersSentence ==
    <<"n", "o", " ", "n", "u", "m", "b", "e", "r", "s", " ", "h", "e", "r", "e">>

\* "I have 3 apples, the answer is -1,234,567.125."
ProseSentence ==
    <<"I", " ", "h", "a", "v", "e", " ", "3", " ", "a", "p", "p", "l", "e", "s", ",", " ",
      "i", "s", " ", "-", "1", ",", "2", "3", "4", ",", "5", "6", "7", ".", "1", "2", "5", ".">>

\* the decimal literal of 10^n: a 1 followed by n zeros
PowerOfTen(n) == <<"1">> \o Zeros(n)

ExampleStrings ==
    { AnswerSentence, NoNumbersSentence, ProseSentence,
      <<"1", ",", "2", "3", "4", ".", "5", "6">>,
      <<"-", "0", ".", "0", "0", "1">>,
      <<"2", ".", "6", "7", "5">>,
      <<"1", ".", "2", ".", "3">>,
      PowerOfTen(FloatMaxIntDigits),
      <<"=", " ">> \o PowerOfTen(FloatMaxIntDigits) \o <<" ", "k", "m">> }

StringInputs == {PyStr(s) : s \in SeqsUpTo(CanonAlphabet, MaxLen) \cup ExampleStrings}

IntInputs ==
    {PyInt(neg, ip) : neg \in BOOLEAN,
                      ip \in {<<"7">>, <<"4", "2">>, <<"1", "2", "3", "4">>}}
    \cup {PyInt(FALSE, <<>>)}

\* floats from 1e-05 up to 1e+16, among them solver results such as 3.0 and 2.5;
\* each has at most 15 significant digits, so its repr shows exactly these digits
FloatInputs ==
    {PyFloat(neg, ip, fp) :
        neg \in BOOLEAN,
        ip \in {<<>>, <<"3">>, <<"4", "2">>, <<"1", "2", "3", "4">>},
        fp \in {<<>>, <<"5">>, <<"2", "5">>, <<"1", "2", "5">>, <<"0", "0", "0", "1">>,
                <<"0", "0", "0", "0", "1">>}}
    \cup {PyFloat(neg, PowerOfTen(n), <<>>) : neg \in BOOLEAN, n \in {15, 16}}

CanonInputs == StringInputs \cup IntInputs \cup FloatInputs

-----------------------------------------------------------------------------
(* The canonicalizer applied to an input, then to its own output           *)

NoOutcome == Raised("not called")

CanonIdle ==
    /\ cv_pc = "idle"
    /\ cv_input = PyStr(<<>>)
    /\ cv_output = NoOutcome
    /\ cv_again = NoOutcome

VoterIdle ==
    /\ vt_pc = "idle"
    /\ vt_table = <<>>
    /\ vt_rng = 0
    /\ vt_draws = 0
    /\ vt_pool = <<>>
    /\ vt_result = <<>>

DeclIdle ==
    /\ dc_pc = "idle"
    /\ dc_prediction = <<>>
    /\ dc_equations = PyStr(<<>>)
    /\ dc_answer = NoOutcome
    /\ dc_concise = NoOutcome

SimpIdle ==
    /\ sv_pc = "idle"
    /\ sv_equations = <<>>
    /\ sv_names = <<>>
    /\ sv_result = NoOutcome

NoProcess == [kind |-> "none", returncode |-> 0, stdout |-> <<>>]

SampIdle ==
    /\ sm_pc = "idle"
    /\ sm_version = "v2"
    /\ sm_method = "cot"
    /\ sm_cpp = FALSE
    /\ sm_engine = EngineRaises
    /\ sm_prediction = <<>>
    /\ sm_code = <<>>
    /\ sm_process = NoProcess
    /\ sm_executed = NoOutcome
    /\ sm_concise = NoOutcome
    /\ sm_tempfile = "none"

ReplayIdle ==
    /\ rp_seed = 0
    /\ rp_round = 1
    /\ rp_first = <<>>

BatchIdle ==
    /\ bt_pc = "idle"
    /\ bt_method = "cot"
    /\ bt_cpp = FALSE
    /\ bt_iteration = 0
    /\ bt_engines = <<>>
    /\ bt_outputs = <<>>
    /\ bt_index = 0
    /\ bt_choices = <<>>
    /\ bt_concise = <<>>

CanonInit ==
    /\ VoterIdle
    /\ DeclIdle
    /\ SimpIdle
    /\ SampIdle
    /\ ReplayIdle
    /\ BatchIdle
    /\ cv_pc = "call"
    /\ cv_input \in CanonInputs
    /\ cv_output = NoOutcome
    /\ cv_again = NoOutcome

Canonicalize ==
    /\ cv_pc = "call"
    /\ cv_output' = extract_and_format_value(cv_input)
    /\ cv_pc' = "done"
    /\ UNCHANGED <<cv_input, cv_again>>
    /\ UNCHANGED <<voterVars, declVars, simpVars, sampVars, replayVars, batchVars>>

Recanonicalize ==
    /\ cv_pc = "done"
    /\ cv_output.raised = "none"
    /\ cv_again' = extract_and_format_value(PyStr(cv_output.value))
    /\ cv_pc' = "again"
    /\ UNCHANGED <<cv_input, cv_output>>
    /\ UNCHANGED <<voterVars, declVars, simpVars, sampVars, replayVars, batchVars>>

CanonNext == Canonicalize \/ Recanonicalize

SpecCanon == CanonInit /\ [][CanonNext]_vars

-----------------------------------------------------------------------------
(* The voter called on a frequency table                                   *)

InjectiveSeqs(S) ==
    {q \in UNION {[1..n -> S] : n \in 1..Cardinality(S)} :
        \A i, j \in 1..Len(q) : q[i] = q[j] => i = j}

\* non-empty dicts with distinct keys and frequencies of at least 1
Tables ==
    UNION { {[i \in 1..Len(ks) |-> [key |-> ks[i], freq |-> fs[i]]] :
                fs \in [1..Len(ks) -> 1..MaxFreq]} : ks \in InjectiveSeqs(Answers) }

VoterInit ==
    /\ CanonIdle
    /\ DeclIdle
    /\ SimpIdle
    /\ SampIdle
    /\ ReplayIdle
    /\ BatchIdle
    /\ vt_pc = "call"
    /\ vt_table \in Tables
    /\ vt_rng \in 0..(RngStates - 1)
    /\ vt_draws = 0
    /\ vt_pool = <<>>
    /\ vt_result = <<>>

Vote ==
    /\ vt_pc = "call"
    /\ LET r == select_mode_or_sample(vt_table, vt_rng)
       IN  /\ vt_result' = r.result
           /\ vt_rng' = r.rng
           /\ vt_draws' = vt_draws + r.draws
           /\ vt_pool' = r.pool
    /\ vt_pc' = "done"
    /\ UNCHANGED vt_table
    /\ UNCHANGED <<canonVars, declVars, simpVars, sampVars, replayVars, batchVars>>

VoterNext == Vote

SpecVoter == VoterInit /\ [][VoterNext]_vars

-----------------------------------------------------------------------------
(* sample_based_on_frequency called on a dict of answers and their         *)
(* supporting predictions                                                  *)

\* dicts with distinct keys in which some key has a supporting prediction; a
\* key may have none
SupportTables ==
    UNION { {[i \in 1..Len(ks) |-> [key |-> ks[i], freq |-> fs[i]]] :
                fs \in {f \in [1..Len(ks) -> 0..MaxFreq] : \E i \in 1..Len(ks) : f[i] > 0}} :
            ks \in InjectiveSeqs(Answers) }

FreqInit ==
    /\ CanonIdle
    /\ DeclIdle
    /\ SimpIdle
    /\ SampIdle
    /\ ReplayIdle
    /\ BatchIdle
    /\ vt_pc = "sample"
    /\ vt_table \in SupportTables
    /\ vt_rng \in 0..(RngStates - 1)
    /\ vt_draws = 0
    /\ vt_pool = <<>>
    /\ vt_result = <<>>

SampleByFrequency ==
    /\ vt_pc = "sample"
    /\ vt_result' = sample_based_on_frequency(vt_table, vt_rng).result
    /\ vt_rng' = sample_based_on_frequency(vt_table, vt_rng).rng
    /\ vt_draws' = vt_draws + sample_based_on_frequency(vt_table, vt_rng).draws
    /\ vt_pool' = sample_based_on_frequency(vt_table, vt_rng).pool
    /\ vt_pc' = "sampled"
    /\ UNCHANGED vt_table
    /\ UNCHANGED <<canonVars, declVars, simpVars, sampVars, replayVars, batchVars>>

FreqNext == SampleByFrequency

SpecFreq == FreqInit /\ [][FreqNext]_vars

-----------------------------------------------------------------------------
(* Two invocations of the voter on one table, the module's random source   *)
(* seeded before each                                                      *)

\* largest seed handed to random.seed
MaxSeed == 2

ReplayInit ==
    /\ CanonIdle
    /\ DeclIdle
    /\ SimpIdle
    /\ SampIdle
    /\ BatchIdle
    /\ vt_pc = "seed"
    /\ vt_table \in Tables
    /\ vt_rng \in 0..(RngStates - 1)
    /\ vt_draws = 0
    /\ vt_pool = <<>>
    /\ vt_result = <<>>
    /\ rp_seed \in 0..MaxSeed
    /\ rp_round = 1
    /\ rp_first = <<>>

\* random.seed(rp_seed)
Seed ==
    /\ vt_pc = "seed"
    /\ vt_rng' = seeded_state(rp_seed, vt_rng)
    /\ vt_pc' = "call"
    /\ UNCHANGED <<vt_table, vt_draws, vt_pool, vt_result, replayVars>>
    /\ UNCHANGED <<canonVars, declVars, simpVars, sampVars, batchVars>>

\* the caller keeps the first decision and goes on to the second invocation
Again ==
    /\ vt_pc = "done"
    /\ rp_round = 1
    /\ rp_first' = vt_result
    /\ rp_round' = 2
    /\ vt_pc' = "seed"
    /\ UNCHANGED <<vt_table, vt_rng, vt_draws, vt_pool, vt_result, rp_seed>>
    /\ UNCHANGED <<canonVars, declVars, simpVars, sampVars, batchVars>>

ReplayNext == Seed \/ Vote \/ Again

SpecReplay == ReplayInit /\ [][ReplayNext]_vars

-----------------------------------------------------------------------------
(* One declarative run (run_declarative): the equations are extracted from *)
(* the prediction, solved, and the answer is made concise.  The solver is  *)
(* also called on equation-set strings directly.                           *)

\* the largest number of equations of an equation-set string
MaxEqs == 2

\* "... [[eq1: x + 2 = 5]] [[answer: x]] The answer is 3"
EndToEndPrediction ==
    <<".", ".", ".", " ", "[", "[", "e", "q", "1", ":", " ", "x", " ", "+", " ", "2", " ", "=", " ", "5", "]", "]", " ", "[", "[", "a", "n", "s", "w", "e", "r", ":", " ", "x", "]", "]", " ", "T", "h", "e", " ", "a", "n", "s", "w", "e", "r", " ", "i", "s", " ", "3">>

EqPool ==
    <<<<"x", " ", "=", " ", "2", " ", "+", " ", "3">>,
      <<"2", " ", "+", " ", "3", " ", "=", " ", "?">>,
      <<"x", " ", "=", " ", "?">>,
      <<"y", " ", "=", " ", "?">>,
      <<"x", " ", "+", " ", "2", " ", "=", " ", "5">>,
      <<"1", " ", "x", " ", "+", " ", "2", " ", "=", " ", "5">>,
      <<"y", " ", "=", " ", "x", " ", "+", " ", "1">>,
      <<"2", "x", " ", "=", " ", "5">>,
      <<"x", " ", "+", " ", "y", " ", "=", " ", "3">>,
      <<"t", "o", "t", "a", "l", " ", "=", " ", "c", "o", "s", "t", " ", "+", " ", "1">>,
      <<"t", "o", "t", "a", "l", " ", "=", " ", "?">>,
      <<"c", "o", "s", "t", " ", "=", " ", "2">>,
      <<"x", " ", "+", " ", "1", " ", "=", " ", "?">>,
      <<"x", " ", "+", " ", "=", " ", "2">>,
      <<"5">>,
      <<"2", "a", "b", "c", " ", "=", " ", "1">>,
      <<"x", " ", "/", " ", "2", " ", "=", " ", "3">>>>

Predictions ==
    {EndToEndPrediction,
     <<"[", "[", "e", "q", " ", "x", " ", "+", " ", "2", " ", "=", " ", "5", "]", "]", " ", "[", "[", "a", "n", "s", "w", "e", "r", " ", "x", "]", "]">>,
     <<"[", "[", "e", "q", " ", "2", "x", " ", "=", " ", "5", "]", "]", " ", "[", "[", "e", "q", " ", "y", " ", "=", " ", "x", " ", "+", " ", "1", "]", "]", " ", "[", "[", "a", "n", "s", "w", "e", "r", " ", "y", "]", "]">>,
     <<"[", "[", "e", "q", " ", "t", "o", "t", "a", "l", " ", "=", " ", "2", " ", "+", " ", "3", "]", "]", " ", "[", "[", "a", "n", "s", "w", "e", "r", " ", "t", "o", "t", "a", "l", "]", "]">>,
     <<"[", "[", "a", "n", "s", "w", "e", "r", " ", "1", "2", "]", "]">>,
     <<"[", "[", "n", "o", "t", "e", "]", "]">>,
     <<"x", " ", "+", " ", "2", " ", "=", " ", "5">>,
     <<"7">>}

RECURSIVE JoinEqs(_)
JoinEqs(eqs) ==
    IF Len(eqs) = 1 THEN eqs[1]
    ELSE eqs[1] \o <<",", " ">> \o JoinEqs(Tail(eqs))

\* the equations of EqPool chosen by idx, in that order, as one string
EquationSet(idx) == JoinEqs([i \in 1..Len(idx) |-> EqPool[idx[i]]])

EquationSets ==
    {EquationSet(idx) : idx \in
        {q \in UNION {[1..n -> 1..Len(EqPool)] : n \in 1..MaxEqs} :
            \A i, j \in 1..Len(q) : q[i] = q[j] => i = j}}

SolverInputs ==
    {PyStr(e) : e \in EquationSets} \cup {PyStr(<<>>), PyStr(<<"n", "a", "n">>), PyNaN}

\* the lists a set can be turned into (line 20: the order is the set's)
ListsOf(S) ==
    {q \in [1..Cardinality(S) -> S] : \A i, j \in 1..Cardinality(S) : q[i] = q[j] => i = j}

DeclInit ==
    /\ CanonIdle
    /\ VoterIdle
    /\ SimpIdle
    /\ SampIdle
    /\ ReplayIdle
    /\ BatchIdle
    /\ \/ /\ dc_pc = "extract"
          /\ dc_prediction \in Predictions
          /\ dc_equations = PyStr(<<>>)
       \/ /\ dc_pc = "solve"
          /\ dc_prediction = <<>>
          /\ dc_equations \in SolverInputs
    /\ dc_answer = NoOutcome
    /\ dc_concise = NoOutcome

\* run_declarative line 208
Extract ==
    /\ dc_pc = "extract"
    /\ dc_equations' = PyStr(get_declarative_equations(dc_prediction))
    /\ dc_pc' = "solve"
    /\ UNCHANGED <<dc_prediction, dc_answer, dc_concise>>
    /\ UNCHANGED <<canonVars, voterVars, simpVars, sampVars, replayVars, batchVars>>

\* run_declarative line 210
Solve ==
    /\ dc_pc = "solve"
    /\ \E long_var_names \in
            ListsOf(IF dc_equations.type = "str"
                    THEN long_var_names_of(dc_equations.chars) ELSE {}) :
          dc_answer' = get_final_using_sympy(dc_equations, long_var_names)
    /\ dc_pc' = "format"
    /\ UNCHANGED <<dc_prediction, dc_equations, dc_concise>>
    /\ UNCHANGED <<canonVars, voterVars, simpVars, sampVars, replayVars, batchVars>>

\* run_declarative lines 211-214
Format ==
    /\ dc_pc = "format"
    /\ dc_answer.raised = "none"
    /\ dc_concise' = concise_prediction_of(dc_answer.value)
    /\ dc_pc' = "done"
    /\ UNCHANGED <<dc_prediction, dc_equations, dc_answer>>
    /\ UNCHANGED <<canonVars, voterVars, simpVars, sampVars, replayVars, batchVars>>

DeclNext == Extract \/ Solve \/ Format

SpecDecl == DeclInit /\ [][DeclNext]_vars

-----------------------------------------------------------------------------
(* get_final_using_sympy called on equation-set strings: those of          *)
(* SolverInputs, and sets chosen for the goal detection, the renaming and  *)
(* the incremental solve                                                   *)

\* "a + b + ..." over the first n lower-case letters
RECURSIVE LettersSum(_)
LettersSum(n) ==
    IF n = 1 THEN <<Lowercase[1]>>
    ELSE LettersSum(n - 1) \o <<" ", "+", " ", Lowercase[n]>>

TotalPlusCost == <<"t", "o", "t", "a", "l", " ", "+", " ", "c", "o", "s", "t">>

\* n one-letter variables and the two long names total and cost
LettersAndLongNames(n) == LettersSum(n) \o <<" ", "=", " ">> \o TotalPlusCost

ChosenEquationSets ==
    {<<"x", " ", "=", " ", "2", ",", " ", "x", " ", "+", " ", "=", " ", "3", ",", " ", "x", " ", "=", " ", "?">>,
     <<"y", " ", "=", " ", "x", " ", "+", " ", "1", ",", " ", "x", " ", "=", " ", "2", ",", " ", "y", " ", "=", " ", "?">>,
     <<"x", " ", "=", " ", "?", ",", " ", "x", " ", "=", " ", "2", ",", " ", "x", " ", "=", " ", "?">>,
     <<"x", " ", "+", " ", "=", " ", "3", ",", " ", "x", " ", "=", " ", "2", ",", " ", "x", " ", "=", " ", "?">>,
     <<"x", " ", "+", " ", "y", " ", "=", " ", "3", ",", " ", "x", " ", "=", " ", "1", ",", " ", "y", " ", "=", " ", "?">>,
     <<"x", " ", "=", " ", "1", ",", " ", "x", " ", "=", " ", "2", ",", " ", "x", " ", "=", " ", "?">>,
     <<"x", " ", "=", " ", "2", ",", " ", "y", " ", "=", " ", "3", ",", " ", "x", " ", "=", " ", "?">>,
     <<"y", " ", "=", " ", "x", " ", "+", " ", "1", ",", " ", "2", "a", "b", "c", " ", "=", " ", "1", ",", " ", "y", " ", "=", " ", "?">>,
     <<"x", " ", "=", " ", "2", ",", " ", "2", "a", "b", "c", " ", "=", " ", "1", ",", " ", "x", " ", "=", " ", "?">>,
     <<"x", " ", "=", " ", "1", ",", " ", "y", " ", "=", " ", "2", ",", " ", "z", " ", "=", " ", "?">>,
     <<"x", " ", "=", " ", "2", ",", " ", "y", " ", "=", " ", "x", " ", "+", " ", "1", ",", " ", "y", " ", "+", " ", "1", " ", "=", " ", "?">>,
     <<"x", " ", "=", " ", "2", ",", " ", "x", " ", "=", " ", "3">>,
     <<"1", "2", " ", "=", " ", "?">>,
     <<"x", " ", "=", " ", "2", " ", "+", " ", "3", ",", " ", "1", "2", " ", "=", " ", "?">>,
     <<"x", " ", "=", " ", "2", " ", "+", " ", "3", ",", " ", "1", " ", "+", " ", "2", " ", "+", " ", "3", " ", "=", " ", "?">>,
     <<"x", " ", "=", " ", "2", " ", "+", " ", "3", ",", " ", "7", " ", "=", " ", "?">>,
     <<"x", " ", "=", " ", "2", " ", "+", " ", "3", ",", " ", "(", "5", ")", " ", "=", " ", "?">>,
     <<"x", " ", "=", " ", "2", " ", "+", " ", "3", ",", " ", "+", " ", "=", " ", "?">>,
     <<"x", " ", "=", " ", "2", ",", " ", "x", " ", "+", " ", "=", " ", "?">>,
     <<"x", " ", "=", " ", "2", ",", " ", "x", "1", " ", "=", " ", "3", ",", " ", "5", " ", "+", " ", "1">>,
     <<"x", " ", "=", " ", "2", ",", " ", "a", "b">>,
     <<"x", " ", "=", " ", "2", ",", " ", "2", "x">>,
     <<"2", "x">>,
     <<"x", " ", "+", " ", "1">>,
     <<"t", "o", "t", "a", "l", " ", "=", " ", "2", ",", " ", "c", "o", "s", "t", " ", "=", " ", "3", ",", " ", "t", "o", "t", "a", "l", " ", "+", " ", "c", "o", "s", "t", " ", "=", " ", "?">>,
     <<"(", "x", " ", "=", " ", "3", ",", " ", "x", " ", "=", " ", "2", ",", " ", "x", " ", "=", " ", "?">>,
     <<"x", " ", "=", " ", "2", ",", " ", "(", "x", " ", "=", " ", "3", ",", " ", "x", " ", "=", " ", "?">>,
     <<"x", " ", "=", " ", "2", ",", " ", "y", " ", "=", " ", ",", " ", "y", " ", "=", " ", "?">>,
     <<"x", " ", "=", " ", "2", ",", " ", "(", "x", " ", "=", " ", "3", ",", " ", "4", " ", "/", " ", "2", " ", "=", " ", "?">>,
     <<"y", " ", "=", " ", "x", " ", "+", " ", "1", ",", " ", "x", " ", "=", " ", "2">>,
     <<"5", ",", " ", "x", " ", "=", " ", "2", ",", " ", "x", " ", "=", " ", "?">>,
     <<"x", " ", "=", " ", "2", ",", " ", "y", " ", "=", " ", "?", ",", " ", "x", " ", "+", " ", "1", " ", "=", " ", "?">>,
     LettersAndLongNames(25),
     LettersAndLongNames(25) \o <<",", " ", "2", " ", "+", " ", "3", " ", "=", " ", "?">>}

SolveInputs == SolverInputs \cup {PyStr(e) : e \in ChosenEquationSets}

SolveInit ==
    /\ CanonIdle
    /\ VoterIdle
    /\ SimpIdle
    /\ SampIdle
    /\ ReplayIdle
    /\ BatchIdle
    /\ dc_pc = "solve"
    /\ dc_prediction = <<>>
    /\ dc_equations \in SolveInputs
    /\ dc_answer = NoOutcome
    /\ dc_concise = NoOutcome

SolveNext == Solve \/ Format

SpecSolve == SolveInit /\ [][SolveNext]_vars

-----------------------------------------------------------------------------
(* Lines 211-214 of run_declarative on every kind of value the solver      *)
(* returns: a failure tag, numpy.nan (line 121), or the float() of lines   *)
(* 144, 153, 176 and 178, which may be negative, infinite, nan, or printed *)
(* by str() with an exponent                                               *)

\* floats that str() prints in positional notation
PositionalFloats ==
    {PyFloat(neg, ip, fp) :
        neg \in BOOLEAN,
        ip \in {<<>>, <<"5">>, <<"1", "2">>, <<"1", "2", "3", "4">>,
                <<"1", "2", "3", "4", "5", "6", "7">>},
        fp \in {<<>>, <<"5">>, <<"2", "5">>, <<"1", "2", "5">>, <<"0", "0", "0", "1">>}}

\* floats that str() prints with an exponent: 1e+16, 1.2345e+20, 1e-05, 1.5e-05
ExponentFloats ==
    {PyFloat(neg, ip \o Zeros(16), <<>>) :
        neg \in BOOLEAN, ip \in {<<"1">>, <<"1", "2", "3", "4", "5">>}}
    \cup {PyFloat(neg, <<>>, Zeros(4) \o fp) :
        neg \in BOOLEAN, fp \in {<<"1">>, <<"1", "5">>}}

SolverReturns ==
    FailureTags \cup {PyNaN, PyInf(FALSE), PyInf(TRUE)}
    \cup PositionalFloats \cup ExponentFloats

FormatInit ==
    /\ CanonIdle
    /\ VoterIdle
    /\ SimpIdle
    /\ SampIdle
    /\ ReplayIdle
    /\ BatchIdle
    /\ dc_pc = "format"
    /\ dc_prediction = <<>>
    /\ dc_equations = PyStr(<<>>)
    /\ dc_answer \in {Returned(v) : v \in SolverReturns}
    /\ dc_concise = NoOutcome

FormatNext == Format

SpecFormat == FormatInit /\ [][FormatNext]_vars

-----------------------------------------------------------------------------
(* The extractor on prediction texts built from [[ ]] fragments, and on    *)
(* texts that hold none                                                    *)

\* the largest number of fragments of a prediction text
MaxFrags == 2

FragPool ==
    <<<<"[", "[", "e", "q", " ", "x", " ", "+", " ", "2", " ", "=", " ", "5", "]", "]">>,
      <<"[", "[", "a", "n", "s", "w", "e", "r", " ", "x", "]", "]">>,
      <<"[", "[", "e", "q", "1", ":", " ", "x", " ", "+", " ", "2", " ", "=", " ", "5", "]", "]">>,
      <<"[", "[", "a", "n", "s", "w", "e", "r", ":", " ", "t", "o", "t", "a", "l", "]", "]">>,
      <<"[", "[", "n", "o", "t", "e", "]", "]">>,
      <<"[", "[", "e", "q", " ", "a", " ", "=", " ", "1", ",", " ", "b", " ", "=", " ", "2", "]", "]">>,
      <<"[", "[", "e", "q", " ", "x", " ", "=", " ", "y", " ", "=", " ", "2", "]", "]">>,
      <<"[", "[", "e", "q", " ", "x", " ", "+", " ", "2", "]", "]">>,
      <<"[", "[", "a", "n", "s", "w", "e", "r", ":", " ", "r", "e", "q", "u", "e", "s", "t", "]", "]">>,
      <<"[", "[", "e", "q", "]", "]">>,
      <<"[", "[", "e", "q", " ", "a", "n", "s", "w", "e", "r", " ", "=", " ", "3", "]", "]">>>>

\* texts in which the pattern of line 94 finds nothing
PlainTexts ==
    {<<>>,
     <<" ", "7", " ">>,
     <<"T", "h", "e", " ", "a", "n", "s", "w", "e", "r", " ", "i", "s", " ", "3">>,
     <<"x", " ", "+", " ", "2", " ", "=", " ", "5", ",", " ", "x", " ", "=", " ", "?">>,
     <<"[", "[", "e", "q", " ", "x", " ", "=", " ", "1">>,
     <<"e", "q", " ", "x", " ", "=", " ", "1", "]", "]">>,
     <<"]", "]", " ", "x", " ", "=", " ", "1", " ", "[", "[">>,
     <<"[", "[", "e", "q", " ", "x", "\n", "=", " ", "1", "]", "]">>,
     <<"[", " ", "[", "e", "q", " ", "x", " ", "=", " ", "1", "]", " ", "]">>,
     <<"[", "[", "]">>}

RECURSIVE JoinFrags(_)
JoinFrags(frags) ==
    IF Len(frags) = 1 THEN frags[1]
    ELSE frags[1] \o <<" ">> \o JoinFrags(Tail(frags))

FragmentTexts ==
    {JoinFrags([i \in 1..Len(idx) |-> FragPool[idx[i]]]) :
        idx \in UNION {[1..n -> 1..Len(FragPool)] : n \in 1..MaxFrags}}

ExtractorInputs == FragmentTexts \cup PlainTexts

ExtractInit ==
    /\ CanonIdle
    /\ VoterIdle
    /\ SimpIdle
    /\ SampIdle
    /\ ReplayIdle
    /\ BatchIdle
    /\ dc_pc = "extract"
    /\ dc_prediction \in ExtractorInputs
    /\ dc_equations = PyStr(<<>>)
    /\ dc_answer = NoOutcome
    /\ dc_concise = NoOutcome

ExtractNext == Extract

SpecExtract == ExtractInit /\ [][ExtractNext]_vars

-----------------------------------------------------------------------------
(* simplify_variables called on an equation text                           *)

\* the largest number of words of an equation text
MaxWords == 3

WordPool ==
    <<<<"t", "o", "t", "a", "l">>, <<"c", "o", "s", "t">>, <<"x">>, <<"a">>, <<"2", "b">>, <<"_", "t">>, <<"x", "1">>, <<"3">>>>

RECURSIVE JoinWords(_)
JoinWords(ws) ==
    IF Len(ws) = 1 THEN ws[1]
    ELSE ws[1] \o <<" ", "+", " ">> \o JoinWords(Tail(ws))

\* sums of words of the pool
WordTexts ==
    {JoinWords([i \in 1..Len(idx) |-> WordPool[idx[i]]]) :
        idx \in UNION {[1..n -> 1..Len(WordPool)] : n \in 1..MaxWords}}

\* texts that leave two, and one, unused letters to two long names; a letter
\* written next to a digit; a product of two long names
SpecialTexts ==
    {<<"a", " ", "+", " ", "b", " ", "+", " ", "c", " ", "+", " ", "d", " ", "+", " ", "e", " ", "+", " ", "f", " ", "+", " ", "g", " ", "+", " ", "h", " ", "+", " ", "i", " ", "+", " ", "j", " ", "+", " ", "k", " ", "+", " ", "l", " ", "+", " ", "m", " ", "+", " ", "n", " ", "+", " ", "o", " ", "+", " ", "p", " ", "+", " ", "q", " ", "+", " ", "r", " ", "+", " ", "s", " ", "+", " ", "t", " ", "+", " ", "u", " ", "+", " ", "v", " ", "+", " ", "w", " ", "+", " ", "x", " ", "=", " ", "t", "o", "t", "a", "l", " ", "+", " ", "c", "o", "s", "t">>,
     <<"a", " ", "+", " ", "b", " ", "+", " ", "c", " ", "+", " ", "d", " ", "+", " ", "e", " ", "+", " ", "f", " ", "+", " ", "g", " ", "+", " ", "h", " ", "+", " ", "i", " ", "+", " ", "j", " ", "+", " ", "k", " ", "+", " ", "l", " ", "+", " ", "m", " ", "+", " ", "n", " ", "+", " ", "o", " ", "+", " ", "p", " ", "+", " ", "q", " ", "+", " ", "r", " ", "+", " ", "s", " ", "+", " ", "t", " ", "+", " ", "u", " ", "+", " ", "v", " ", "+", " ", "w", " ", "+", " ", "x", " ", "+", " ", "y", " ", "=", " ", "t", "o", "t", "a", "l", " ", "+", " ", "c", "o", "s", "t">>,
     <<"2", "a", " ", "+", " ", "t", "o", "t", "a", "l", " ", "=", " ", "5">>,
     <<"r", "a", "t", "e", " ", "=", " ", "2", ",", " ", "t", "i", "m", "e", " ", "=", " ", "3", ",", " ", "r", "a", "t", "e", " ", "t", "i", "m", "e", " ", "=", " ", "?">>}

SimplifyInputs == WordTexts \cup SpecialTexts

SimpInit ==
    /\ CanonIdle
    /\ VoterIdle
    /\ DeclIdle
    /\ SampIdle
    /\ ReplayIdle
    /\ BatchIdle
    /\ sv_pc = "call"
    /\ sv_equations \in SimplifyInputs
    /\ sv_names = <<>>
    /\ sv_result = NoOutcome

\* lines 19-26; the order of long_var_names is the set's
Simplify ==
    /\ sv_pc = "call"
    /\ \E long_var_names \in ListsOf(long_var_names_of(sv_equations)) :
          /\ sv_names' = long_var_names
          /\ sv_result' = simplify_variables(sv_equations, long_var_names)
    /\ sv_pc' = "done"
    /\ UNCHANGED sv_equations
    /\ UNCHANGED <<canonVars, voterVars, declVars, sampVars, replayVars, batchVars>>

SimpNext == Simplify

SpecSimp == SimpInit /\ [][SimpNext]_vars

-----------------------------------------------------------------------------
(* One sample from the engine call to its concise prediction, and          *)
(* run_code_with_subprocess_timeout called on a program text               *)

CotTexts ==
    {<<"T", "h", "e", " ", "a", "n", "s", "w", "e", "r", " ", "i", "s", " ", "5">>,
     <<" ", "S", "o", " ", "2", " ", "+", " ", "3", " ", "=", " ", "5", ".", " ", "T", "h", "e", " ", "a", "n", "s", "w", "e", "r", " ", "i", "s", " ", "$", "1", ",", "2", "3", "4", ".", "5", " ", "d", "o", "l", "l", "a", "r", "s", ".", "\n">>,
     <<"n", "o", " ", "i", "d", "e", "a">>,
     <<>>,
     <<"-", "1">>,
     <<"b", "u", "g">>,
     <<"Q", ":", " ", "q", "\n", "A", ":", " ", "T", "h", "e", " ", "a", "n", "s", "w", "e", "r", " ", "i", "s", " ", "7", " ", "Q", ":">>,
     <<"<", "|", "a", "s", "s", "i", "s", "t", "a", "n", "t", "|", ">", "T", "h", "e", " ", "a", "n", "s", "w", "e", "r", " ", "i", "s", " ", "3">>,
     <<"T", "h", "e", " ", "a", "n", "s", "w", "e", "r", " ", "i", "s", " ", "2", ".", " ", "T", "h", "e", " ", "a", "n", "s", "w", "e", "r", " ", "i", "s", " ", "4">>}

\* a program whose text holds a character the script file cannot encode
UnencodableProgram ==
    <<"d", "e", "f", " ", "s", "o", "l", "u", "t", "i", "o", "n", "(", ")", ":", "\n", " ", " ", " ", " ", "r", "e", "s", "u", "l", "t", " ", "=", " ", "'">> \o <<Surrogate>> \o <<"'", "\n", " ", " ", " ", " ", "r", "e", "t", "u", "r", "n", " ", "r", "e", "s", "u", "l", "t">>

PalTexts ==
    {<<"d", "e", "f", " ", "s", "o", "l", "u", "t", "i", "o", "n", "(", ")", ":", "\n", " ", " ", " ", " ", "r", "e", "s", "u", "l", "t", " ", "=", " ", "5", "\n", " ", " ", " ", " ", "r", "e", "t", "u", "r", "n", " ", "r", "e", "s", "u", "l", "t">>,
     <<"C", "o", "d", "e", ":", "\n", "d", "e", "f", " ", "s", "o", "l", "u", "t", "i", "o", "n", "(", ")", ":", "\n", " ", " ", " ", " ", "r", "e", "s", "u", "l", "t", " ", "=", " ", "2", " ", "+", " ", "3", "\n", " ", " ", " ", " ", "r", "e", "t", "u", "r", "n", " ", "r", "e", "s", "u", "l", "t", " ", " ", "#", " ", "f", "i", "v", "e", "\n", "D", "o", "n", "e">>,
     <<"n", "o", " ", "c", "o", "d", "e">>,
     <<>>,
     <<"-", "1">>,
     UnencodableProgram}

DeclTexts ==
    {<<"[", "[", "e", "q", " ", "x", " ", "+", " ", "2", " ", "=", " ", "5", "]", "]", " ", "[", "[", "a", "n", "s", "w", "e", "r", " ", "x", "]", "]">>,
     <<"[", "[", "n", "o", "t", "e", "]", "]">>,
     <<"7">>,
     <<>>,
     <<".", ".", ".", " ", "[", "[", "e", "q", "1", ":", " ", "x", " ", "+", " ", "2", " ", "=", " ", "5", "]", "]", " ", "[", "[", "a", "n", "s", "w", "e", "r", ":", " ", "x", "]", "]", " ", "T", "h", "e", " ", "a", "n", "s", "w", "e", "r", " ", "i", "s", " ", "3">>}

Stdouts ==
    {<<"5", "\n">>,
     <<"1", "2", "3", "4", ".", "5", "\n">>,
     <<>>,
     <<"N", "o", "n", "e", "\n">>,
     <<"-", "3", "\n">>,
     <<"b", "u", "g", "\n">>}

\* the strategies of methods/v2 and of methods/v3
Methods(version) ==
    IF version = "v2" THEN {"cot", "declarative", "pal"} ELSE {"cot", "pal", "zero_shot"}

TextsOf(method) ==
    IF method = "pal" THEN PalTexts
    ELSE IF method = "declarative" THEN DeclTexts
    ELSE CotTexts

\* the Python API returns or raises; the binary also exits with a code
EngineOutcomes(cpp, method) ==
    {EngineRaises}
    \cup {EngineReturns(t, 0) : t \in TextsOf(method)}
    \cup (IF cpp THEN {EngineReturns(t, 1) : t \in TextsOf(method)} ELSE {})

\* a script that defines no solution() cannot exit with code 0
ProcessOutcomes(code) ==
    {TimedOut, NotStarted}
    \cup {Exited(1, out) : out \in {<<>>, <<"5", "\n">>}}
    \cup (IF HasSub(code, DefSolution) THEN {Exited(0, out) : out \in Stdouts} ELSE {})

SampInit ==
    /\ CanonIdle
    /\ VoterIdle
    /\ DeclIdle
    /\ SimpIdle
    /\ ReplayIdle
    /\ BatchIdle
    /\ sm_pc = "engine"
    /\ sm_version \in {"v2", "v3"}
    /\ sm_method \in Methods(sm_version)
    /\ sm_cpp \in BOOLEAN
    /\ sm_engine \in EngineOutcomes(sm_cpp, sm_method)
    /\ sm_prediction = <<>>
    /\ sm_code = <<>>
    /\ sm_process = NoProcess
    /\ sm_executed = NoOutcome
    /\ sm_concise = NoOutcome
    /\ sm_tempfile = "none"

sampFrame == <<canonVars, voterVars, declVars, simpVars, replayVars, batchVars>>

\* the call of run_llm in each strategy
RunLLM ==
    /\ sm_pc = "engine"
    /\ sm_prediction' = IF sm_version = "v2" THEN run_llm_v2(sm_cpp, sm_engine)
                                            ELSE run_llm_v3(sm_cpp, sm_engine)
    /\ sm_pc' = "consume"
    /\ UNCHANGED <<sm_version, sm_method, sm_cpp, sm_engine, sm_code, sm_process,
                   sm_executed, sm_concise,
                   sm_tempfile>>
    /\ UNCHANGED sampFrame

\* run_cot and run_zero_shot
ConsumeCot ==
    /\ sm_pc = "consume"
    /\ sm_method \in {"cot", "zero_shot"}
    /\ sm_concise' = cot_concise(sm_prediction)
    /\ sm_pc' = "done"
    /\ UNCHANGED <<sm_version, sm_method, sm_cpp, sm_engine, sm_prediction, sm_code,
                   sm_process, sm_executed, sm_tempfile>>
    /\ UNCHANGED sampFrame

\* lines 211-214 of run_declarative on the outcome of the solver
declarative_concise(solved) ==
    IF solved.raised # "none" THEN solved ELSE concise_prediction_of(solved.value)

\* run_declarative lines 208-214
ConsumeDeclarative ==
    /\ sm_pc = "consume"
    /\ sm_method = "declarative"
    /\ \E long_var_names \in
            ListsOf(long_var_names_of(get_declarative_equations(sm_prediction))) :
          sm_concise' = declarative_concise(
              get_final_using_sympy(PyStr(get_declarative_equations(sm_prediction)),
                                    long_var_names))
    /\ sm_pc' = "done"
    /\ UNCHANGED <<sm_version, sm_method, sm_cpp, sm_engine, sm_prediction, sm_code,
                   sm_process, sm_executed, sm_tempfile>>
    /\ UNCHANGED sampFrame

\* run_pal lines 63-65
ExtractCode ==
    /\ sm_pc = "consume"
    /\ sm_method = "pal"
    /\ sm_code' = pal_code(sm_prediction)
    /\ sm_pc' = "execute"
    /\ UNCHANGED <<sm_version, sm_method, sm_cpp, sm_engine, sm_prediction, sm_process,
                   sm_executed, sm_concise,
                   sm_tempfile>>
    /\ UNCHANGED sampFrame

\* run_code_with_subprocess_timeout(sm_code)
Execute ==
    /\ sm_pc = "execute"
    /\ \E process \in ProcessOutcomes(sm_code) :
          /\ sm_process' = process
          /\ sm_executed' = run_code_with_subprocess_timeout(sm_code, process)
          /\ sm_tempfile' = script_file_after(sm_code, process)
    /\ sm_pc' = "conclude"
    /\ UNCHANGED <<sm_version, sm_method, sm_cpp, sm_engine, sm_prediction, sm_code,
                   sm_concise>>
    /\ UNCHANGED sampFrame

\* run_pal lines 68-74
Conclude ==
    /\ sm_pc = "conclude"
    /\ sm_method = "pal"
    /\ sm_concise' = pal_concise(pal_answer(sm_executed))
    /\ sm_pc' = "done"
    /\ UNCHANGED <<sm_version, sm_method, sm_cpp, sm_engine, sm_prediction, sm_code,
                   sm_process, sm_executed, sm_tempfile>>
    /\ UNCHANGED sampFrame

SampNext ==
    RunLLM \/ ConsumeCot \/ ConsumeDeclarative \/ ExtractCode \/ Execute \/ Conclude

SpecSample == SampInit /\ [][SampNext]_vars

\* program texts handed to run_code_with_subprocess_timeout
Programs ==
    {pal_code(t) : t \in PalTexts}
    \cup {<<"d", "e", "f", " ", "s", "o", "l", "u", "t", "i", "o", "n", "(", ")", ":", "\n", " ", " ", " ", " ", "r", "e", "t", "u", "r", "n", " ", "5">>,
          <<"d", "e", "f", " ", "s", "o", "l", "u", "t", "i", "o", "n", "(", ")", ":", "\n", " ", " ", " ", " ", "w", "h", "i", "l", "e", " ", "T", "r", "u", "e", ":", " ", "p", "a", "s", "s">>,
          <<"i", "m", "p", "o", "r", "t", " ", "s", "y", "s", "\n", "d", "e", "f", " ", "s", "o", "l", "u", "t", "i", "o", "n", "(", ")", ":", "\n", " ", " ", " ", " ", "s", "y", "s", ".", "e", "x", "i", "t", "(", "3", ")">>}

\* the function called on its own: no strategy around it
ExecInit ==
    /\ CanonIdle
    /\ VoterIdle
    /\ DeclIdle
    /\ SimpIdle
    /\ ReplayIdle
    /\ BatchIdle
    /\ sm_pc = "execute"
    /\ sm_version \in {"v2", "v3"}
    /\ sm_method = "none"
    /\ sm_cpp = FALSE
    /\ sm_engine = EngineRaises
    /\ sm_prediction = <<>>
    /\ sm_code \in Programs
    /\ sm_process = NoProcess
    /\ sm_executed = NoOutcome
    /\ sm_concise = NoOutcome
    /\ sm_tempfile = "none"

ExecNext == Execute

SpecExec == ExecInit /\ [][ExecNext]_vars

-----------------------------------------------------------------------------
(* The batch of one question: the loop of utils/v2 run_llm (lines 156-208) *)
(* and the loop over its outputs in run_cot, run_declarative and run_pal;  *)
(* run_decider asks for one output and takes it.                           *)

\* passes of the loop of run_llm for a strategy; the configuration sets it
N_ITERATIONS == 2

\* line 157
iterations_of(decider) == IF decider THEN 1 ELSE N_ITERATIONS

\* the call of one pass did not produce a text: lines 170-172, 199-204
failed_call(cpp, engine) ==
    engine.kind = "raises" \/ (cpp /\ engine.returncode # 0)

\* a loop that appends the text of a successful call only
Mutant_append_output(llm_outputs, cpp, engine) ==
    IF failed_call(cpp, engine) THEN llm_outputs
    ELSE Append(llm_outputs, run_llm_v2(cpp, engine))

\* one pass of the loop of lines 159-206: the append of line 169 or 172
\* (Python API), of line 198, 201 or 204 (binary)
append_output(llm_outputs, cpp, engine) ==
    Append(llm_outputs, run_llm_v2(cpp, engine))

BatchTexts(method) ==
    IF method = "pal" THEN
        {<<"d", "e", "f", " ", "s", "o", "l", "u", "t", "i", "o", "n", "(", ")", ":", "\n", " ", " ", " ", " ", "r", "e", "s", "u", "l", "t", " ", "=", " ", "5", "\n", " ", " ", " ", " ", "r", "e", "t", "u", "r", "n", " ", "r", "e", "s", "u", "l", "t">>,
         <<"n", "o", " ", "c", "o", "d", "e">>,
         UnencodableProgram}
    ELSE IF method = "declarative" THEN
        {<<"[", "[", "e", "q", " ", "x", " ", "+", " ", "2", " ", "=", " ", "5", "]", "]", " ", "[", "[", "a", "n", "s", "w", "e", "r", " ", "x", "]", "]">>,
         <<"[", "[", "n", "o", "t", "e", "]", "]">>}
    ELSE
        {<<"T", "h", "e", " ", "a", "n", "s", "w", "e", "r", " ", "i", "s", " ", "5">>,
         <<"n", "o", " ", "i", "d", "e", "a">>}

BatchEngineOutcomes(cpp, method) ==
    {EngineRaises}
    \cup {EngineReturns(t, 0) : t \in BatchTexts(method)}
    \cup (IF cpp THEN {EngineReturns(<<>>, 1)} ELSE {})

\* what the surroundings decide during one pass over a prediction: the run
\* of the child process (run_pal), the iteration order of the set of long
\* names (run_declarative)
Choice(process, long_var_names) ==
    [process |-> process, long_var_names |-> long_var_names]

ChoicesOf(method, prediction) ==
    IF method = "pal"
    THEN {Choice(process, <<>>) :
            process \in {TimedOut}
                \cup (IF HasSub(pal_code(prediction), DefSolution)
                      THEN {Exited(0, <<"5", "\n">>), Exited(0, <<"N", "o", "n", "e", "\n">>)}
                      ELSE {Exited(1, <<>>)})}
    ELSE IF method = "declarative"
    THEN {Choice(NoProcess, names) :
            names \in ListsOf(long_var_names_of(get_declarative_equations(prediction)))}
    ELSE {Choice(NoProcess, <<>>)}

\* the body of the loop over the predictions: chain_of_thought lines 25-26,
\* declarative lines 208-214, program_aided_lm lines 62-73
concise_of(method, prediction, choice) ==
    IF method = "pal"
    THEN pal_concise(pal_answer(
             run_code_with_subprocess_timeout(pal_code(prediction), choice.process)))
    ELSE IF method = "declarative"
    THEN declarative_concise(
             get_final_using_sympy(PyStr(get_declarative_equations(prediction)),
                                   choice.long_var_names))
    ELSE cot_concise(prediction)

\* run_decider calls run_llm with the Python API (cpp is left at its default)
BatchInit ==
    /\ CanonIdle
    /\ VoterIdle
    /\ DeclIdle
    /\ SimpIdle
    /\ SampIdle
    /\ ReplayIdle
    /\ bt_pc = "run_llm"
    /\ bt_method \in {"cot", "declarative", "pal", "decider"}
    /\ bt_cpp \in BOOLEAN
    /\ bt_method = "decider" => ~bt_cpp
    /\ bt_iteration = 0
    /\ bt_engines = <<>>
    /\ bt_outputs = <<>>
    /\ bt_index = 0
    /\ bt_choices = <<>>
    /\ bt_concise = <<>>

batchFrame == <<canonVars, voterVars, declVars, simpVars, sampVars, replayVars>>

\* one pass of "for iteration in range(iterations)", lines 159-206
Iterate ==
    /\ bt_pc = "run_llm"
    /\ bt_iteration < iterations_of(bt_method = "decider")
    /\ \E engine \in BatchEngineOutcomes(bt_cpp, bt_method) :
          /\ bt_engines' = Append(bt_engines, engine)
          /\ bt_outputs' = append_output(bt_outputs, bt_cpp, engine)
    /\ bt_iteration' = bt_iteration + 1
    /\ UNCHANGED <<bt_pc, bt_method, bt_cpp, bt_index, bt_choices, bt_concise>>
    /\ UNCHANGED batchFrame

\* line 208: return llm_outputs
ReturnOutputs ==
    /\ bt_pc = "run_llm"
    /\ bt_iteration = iterations_of(bt_method = "decider")
    /\ bt_pc' = "consume"
    /\ UNCHANGED <<bt_method, bt_cpp, bt_iteration, bt_engines, bt_outputs, bt_index,
                   bt_choices, bt_concise>>
    /\ UNCHANGED batchFrame

\* one pass of "for prediction in predictions" of run_cot, run_declarative
\* and run_pal; an exception of the body leaves the function
Consume ==
    /\ bt_pc = "consume"
    /\ bt_method # "decider"
    /\ bt_index < Len(bt_outputs)
    /\ \E choice \in ChoicesOf(bt_method, bt_outputs[bt_index + 1]) :
          IF concise_of(bt_method, bt_outputs[bt_index + 1], choice).raised = "none"
          THEN /\ bt_concise' = Append(bt_concise,
                      concise_of(bt_method, bt_outputs[bt_index + 1], choice).value)
               /\ bt_choices' = Append(bt_choices, choice)
               /\ bt_index' = bt_index + 1
               /\ bt_pc' = "consume"
          ELSE /\ bt_pc' = "raised"
               /\ UNCHANGED <<bt_concise, bt_choices, bt_index>>
    /\ UNCHANGED <<bt_method, bt_cpp, bt_iteration, bt_engines, bt_outputs>>
    /\ UNCHANGED batchFrame

\* the return of run_cot, run_declarative and run_pal
ReturnPredictions ==
    /\ bt_pc = "consume"
    /\ bt_method # "decider"
    /\ bt_index = Len(bt_outputs)
    /\ bt_pc' = "returned"
    /\ UNCHANGED <<bt_method, bt_cpp, bt_iteration, bt_engines, bt_outputs, bt_index,
                   bt_choices, bt_concise>>
    /\ UNCHANGED batchFrame

\* run_decider lines 19-27: element 0 of the list, then the extraction
Decide ==
    /\ bt_pc = "consume"
    /\ bt_method = "decider"
    /\ IF bt_outputs = <<>> \/ cot_concise(bt_outputs[1]).raised # "none"
       THEN /\ bt_pc' = "raised"
            /\ UNCHANGED <<bt_concise, bt_choices, bt_index>>
       ELSE /\ bt_concise' = <<cot_concise(bt_outputs[1]).value>>
            /\ bt_choices' = <<Choice(NoProcess, <<>>)>>
            /\ bt_index' = 1
            /\ bt_pc' = "returned"
    /\ UNCHANGED <<bt_method, bt_cpp, bt_iteration, bt_engines, bt_outputs>>
    /\ UNCHANGED batchFrame

BatchNext == Iterate \/ ReturnOutputs \/ Consume \/ ReturnPredictions \/ Decide

SpecBatch == BatchInit /\ [][BatchNext]_vars

-----------------------------------------------------------------------------
(* Properties of the canonicalizer                                         *)

NoDigit(s) == \A i \in 1..Len(s) : ~isdigit(s[i])

\* digits with a comma before every group of three counted from the right
CommaGrouped(s) ==
    /\ Len(s) >= 1
    /\ \A j \in 1..Len(s) :
          LET r == Len(s) + 1 - j
          IN  IF r % 4 = 0 THEN s[j] = "," ELSE isdigit(s[j])

\* optional minus, comma-grouped integer digits, a point, exactly two digits
IsTwoDecimalForm(s) ==
    LET body == IF s # <<>> /\ Head(s) = "-" THEN Tail(s) ELSE s
        n    == Len(body)
    IN  /\ n >= 4
        /\ body[n - 2] = "."
        /\ isdigit(body[n - 1])
        /\ isdigit(body[n])
        /\ CommaGrouped(SubSeq(body, 1, n - 3))

\* the parts of a decimal token: sign, integer part (commas kept), fraction
TokenParts(t) ==
    LET neg  == t # <<>> /\ Head(t) = "-"
        body == IF neg THEN Tail(t) ELSE t
        dot  == IndexOf(body, ".")
    IN  [neg |-> neg,
         ip  |-> IF dot = 0 THEN body ELSE SubSeq(body, 1, dot - 1),
         fp  |-> IF dot = 0 THEN <<>> ELSE SubSeq(body, dot + 1, Len(body))]

\* optional minus, plain or comma-grouped integer digits, at most one point
WellFormedDecimal(t) ==
    LET q == TokenParts(t)
    IN  /\ \A i \in 1..Len(q.fp) : isdigit(q.fp[i])
        /\ \/ \A i \in 1..Len(q.ip) : isdigit(q.ip[i])
           \/ CommaGrouped(q.ip)
        /\ \E i \in 1..Len(t) : isdigit(t[i])

\* the number a decimal token denotes, to two decimals with comma grouping
CanonicalForm(t) ==
    LET q == TokenParts(t)
    IN  format_2f(PyFloat(q.neg, RemoveChar(q.ip, ","), q.fp))

\* the token's magnitude is one a double holds
WithinFloatRange(t) ==
    Len(StripLeadingZeros(RemoveChar(TokenParts(t).ip, ","))) <= FloatMaxIntDigits

Called == cv_pc \in {"done", "again"}

\* C3: a string with no digit character is canonicalized to "bug", and no
\* string input makes extract_and_format_value raise.
C3_NoDigitGivesBug ==
    (Called /\ cv_input.type = "str") =>
        /\ cv_output.raised = "none"
        /\ NoDigit(cv_input.chars) => cv_output = Returned(Bug)

C3_Witness ==
    /\ cv_pc = "done"
    /\ cv_input = PyStr(<<"x", "-", ".", ",">>)
    /\ cv_output = Returned(Bug)

\* C4: every value returned by extract_and_format_value is "bug" or a decimal
\* string: optional minus, comma-grouped integer digits, two fraction digits.
C4_BugOrTwoDecimals ==
    (Called /\ cv_output.raised = "none") =>
        \/ cv_output.value = Bug
        \/ IsTwoDecimalForm(cv_output.value)

\* C4 for the inputs whose numeric part a double holds
C4_WithinFloatRange ==
    (Called /\ cv_output.raised = "none" /\ cv_output.value # <<"i", "n", "f">>) =>
        \/ cv_output.value = Bug
        \/ IsTwoDecimalForm(cv_output.value)

\* text = prose \o token \o tail, the token a well-formed decimal, the tail
\* digit-free, the character before the token no digit, comma, point or minus
LastTokens(text) ==
    LET starts == {k \in 1..Len(text) :
                     k = 1 \/ text[k - 1] \notin Digits \cup {",", ".", "-"}}
        ends   == {k \in 1..Len(text) : NoDigit(SubSeq(text, k + 1, Len(text)))}
    IN  {t \in {SubSeq(text, i, j) : i \in starts, j \in ends} : WellFormedDecimal(t)}

\* C5: when the last digit-containing token of a text is a well-formed decimal
\* preceded by no digit, comma, point or minus, the result is the canonical
\* form of that token, whatever prose precedes and whatever digit-free text
\* follows it.
C5_LastTokenCanonical ==
    (Called /\ cv_input.type = "str") =>
        \A t \in LastTokens(cv_input.chars) : cv_output = Returned(CanonicalForm(t))

\* C5 for the tokens a double holds
C5_WithinFloatRange ==
    (Called /\ cv_input.type = "str") =>
        \A t \in LastTokens(cv_input.chars) :
            WithinFloatRange(t) => cv_output = Returned(CanonicalForm(t))

\* C6: on a well-formed decimal string, canonicalizing the canonical output
\* returns it unchanged.
C6_Idempotent ==
    (cv_pc = "again" /\ cv_input.type = "str" /\ WellFormedDecimal(cv_input.chars)) =>
        cv_again = cv_output

\* C6 for the strings a double holds
C6_WithinFloatRange ==
    (cv_pc = "again" /\ cv_input.type = "str" /\ WellFormedDecimal(cv_input.chars)
        /\ WithinFloatRange(cv_input.chars)) =>
        cv_again = cv_output

\* C7: a numeric input, int or float, is returned as the comma-grouped
\* two-decimal rendering of its own value.
C7_NumberRendersItsValue ==
    (Called /\ cv_input.type \in {"int", "float"}) =>
        cv_output = Returned(format_2f([cv_input EXCEPT !.type = "float"]))

\* C7 for the ints and for the floats whose repr has no exponent
C7_WithoutExponent ==
    (Called /\ cv_input.type \in {"int", "float"}
        /\ "e" \notin {str_of(cv_input)[i] : i \in 1..Len(str_of(cv_input))}) =>
        cv_output = Returned(format_2f([cv_input EXCEPT !.type = "float"]))

\* the decimal points of numeric_part (line 117)
PointsTaken == Cardinality({i \in 1..Len(numeric_part_of(cv_input)) :
                               numeric_part_of(cv_input)[i] = "."})

\* C16: at most one decimal point is accumulated, the scan halting at a second
\* one met after the digits have started, so that "1.2.3" is canonicalized
\* from "2.3" instead of failing.
C16_AtMostOnePoint ==
    (Called /\ cv_input.type = "str") =>
        /\ PointsTaken <= 1
        /\ cv_input.chars = <<"1", ".", "2", ".", "3">>
              => cv_output = Returned(<<"2", ".", "3", "0">>)

\* what the scan does: points are accumulated without a limit once a digit is
\* found, and a numeric part with several of them is canonicalized to "bug"
C16_SeveralPointsGiveBug ==
    (Called /\ cv_input.type = "str" /\ PointsTaken >= 2) => cv_output = Returned(Bug)

\* the minus sign at position i of s is followed, after gap characters that are
\* all commas, by a digit or a point from which the scan accumulates rest
MinusBefore(s, i, gap, rest) ==
    /\ s[i] = "-"
    /\ i + gap + 1 <= Len(s)
    /\ \A k \in (i + 1)..(i + gap) : s[k] = ","
    /\ isdigit(s[i + gap + 1]) \/ s[i + gap + 1] = "."
    /\ numeric_part_of(PyStr(SubSeq(s, i + gap + 1, Len(s)))) = rest

MinusTaken == Len(numeric_part_of(cv_input)) > 0 /\ numeric_part_of(cv_input)[1] = "-"

\* C17: a minus sign is accumulated only when it stands immediately before the
\* accumulated run, no character (a comma included) in between; it ends the
\* accumulation, and a minus with no digit after it is never accumulated.
C17_MinusOnlyWhenAdjacent ==
    (Called /\ cv_input.type = "str") =>
        /\ \A i \in 2..Len(numeric_part_of(cv_input)) : numeric_part_of(cv_input)[i] # "-"
        /\ MinusTaken =>
              /\ \E i \in 2..Len(numeric_part_of(cv_input)) :
                    isdigit(numeric_part_of(cv_input)[i])
              /\ \E i \in 1..Len(cv_input.chars) :
                    MinusBefore(cv_input.chars, i, 0, Tail(numeric_part_of(cv_input)))

\* what the scan does: commas between the minus sign and the run are skipped
C17_MinusAcrossCommas ==
    (Called /\ cv_input.type = "str") =>
        /\ \A i \in 2..Len(numeric_part_of(cv_input)) : numeric_part_of(cv_input)[i] # "-"
        /\ MinusTaken =>
              /\ \E i \in 2..Len(numeric_part_of(cv_input)) :
                    isdigit(numeric_part_of(cv_input)[i])
              /\ \E i \in 1..Len(cv_input.chars), gap \in 0..Len(cv_input.chars) :
                    MinusBefore(cv_input.chars, i, gap, Tail(numeric_part_of(cv_input)))

-----------------------------------------------------------------------------
(* Properties of the voter                                                 *)

\* the keys no other key has a larger frequency than
TopKeys(items) ==
    {items[i].key : i \in {i \in 1..Len(items) :
                              \A j \in 1..Len(items) : items[j].freq <= items[i].freq}}

Occurrences(q, x) == Cardinality({i \in 1..Len(q) : q[i] = x})

\* C1: when exactly one answer attains the maximum count, the call returns
\* (that answer, "mode") and takes nothing from the random source.
C1_UniqueMaxIsMode ==
    [][(vt_pc = "call" /\ Cardinality(TopKeys(vt_table)) = 1) =>
          /\ vt_result'[2] = "mode"
          /\ vt_result'[1] \in TopKeys(vt_table)
          /\ vt_draws' = vt_draws
          /\ vt_rng' = vt_rng
          /\ vt_pool' = <<>>]_vars

C1_Witness ==
    /\ vt_pc = "done"
    /\ vt_table = <<[key |-> "10.00", freq |-> 3], [key |-> "12.00", freq |-> 1]>>
    /\ vt_result = <<"10.00", "mode">>

\* C2: on a tie at the maximum count the result is (a, "sampling") with a one
\* of the tied answers, drawn from a pool that holds each tied answer exactly
\* max-count times and nothing else.
C2_TieSamplesAmongTied ==
    (vt_pc = "done" /\ Cardinality(TopKeys(vt_table)) >= 2) =>
        /\ vt_result[2] = "sampling"
        /\ vt_result[1] \in TopKeys(vt_table)
        /\ vt_draws = 1
        /\ \E i \in 1..Len(vt_pool) : vt_pool[i] = vt_result[1]
        /\ \A i \in 1..Len(vt_table) :
              Occurrences(vt_pool, vt_table[i].key) =
                  IF vt_table[i].key \in TopKeys(vt_table) THEN vt_table[i].freq ELSE 0

C2_Witness ==
    /\ vt_pc = "done"
    /\ vt_table = <<[key |-> "10.00", freq |-> 2], [key |-> "7.00", freq |-> 1],
                    [key |-> "12.00", freq |-> 2]>>
    /\ vt_result = <<"12.00", "sampling">>

RECURSIVE TotalSupport(_, _)
\* the supporting predictions of the dict from entry i on
TotalSupport(items, i) ==
    IF i > Len(items) THEN 0 ELSE items[i].freq + TotalSupport(items, i + 1)

\* the supporting predictions of answer k in the dict
SupportOf(items, k) == ItemOf(items, k).freq

\* C27: sample_based_on_frequency returns (a, "sampling") with a a key that has
\* a supporting prediction, drawn from a pool in which every key stands as
\* many times as it has supporting predictions, the keys below the maximum
\* count included.
C27_SampledByFrequency ==
    vt_pc = "sampled" =>
        /\ vt_result[2] = "sampling"
        /\ vt_result[1] \in Keys(vt_table)
        /\ SupportOf(vt_table, vt_result[1]) >= 1
        /\ vt_draws = 1
        /\ \E i \in 1..Len(vt_pool) : vt_pool[i] = vt_result[1]
        /\ \A k \in Keys(vt_table) : Occurrences(vt_pool, k) = SupportOf(vt_table, k)
        /\ Len(vt_pool) = TotalSupport(vt_table, 1)

\* an answer below the maximum count is drawn
C27_Witness ==
    /\ vt_pc = "sampled"
    /\ vt_table = <<[key |-> "10.00", freq |-> 3], [key |-> "7.00", freq |-> 0],
                    [key |-> "12.00", freq |-> 1]>>
    /\ vt_result = <<"12.00", "sampling">>

-----------------------------------------------------------------------------
(* Properties of the symbolic solver and of the declarative run            *)

Solved == dc_pc \in {"format", "done"}

\* the answer is one the algebra engine of the model accounts for
AnswerWithinModel ==
    Solved /\ dc_answer.raised = "none" =>
        /\ dc_answer.value # OutsideModel
        /\ dc_answer.value.type = "float" => ~Contains(dc_answer.value.fp, "?")

\* C8: for every input string get_final_using_sympy returns a float or one
\* of the four tags 'invalid equations', 'no goal found', 'no solution',
\* 'bug', and raises nothing; on the empty string it returns
\* 'invalid equations' or 'no goal found'.
C8_FloatOrTagNeverRaises ==
    Solved /\ dc_equations.type = "str" =>
        /\ dc_answer.raised = "none"
        /\ dc_answer.value.type = "float" \/ dc_answer.value \in FailureTags
        /\ dc_equations.chars = <<>> =>
               dc_answer.value \in {InvalidEquations, NoGoalFound}

\* an exception of the body was raised and came back as 'bug'
C8_Witness ==
    /\ Solved
    /\ dc_equations.type = "str"
    /\ solver_body(dc_equations, <<>>).raised = "SyntaxError"
    /\ dc_answer = Returned(BugTag)

XIsTwoPlusThree == <<"x", " ", "=", " ", "2", " ", "+", " ", "3">>

TwoPlusThreeIsGoal == <<"2", " ", "+", " ", "3", " ", "=", " ", "?">>

Five == PyFloat(FALSE, <<"5">>, <<>>)

ClosedForm(text) ==
    /\ \A i \in 1..Len(text) : ~isalpha(text[i])
    /\ parse_expr(text).st = "ok"

\* the equation-set string holds exactly one equation, with an "="
SingleEquation(equations) ==
    /\ equations.type = "str"
    /\ ~Contains(equations.chars, ",")
    /\ Contains(equations.chars, "=")

SameEquation(a, b) ==
    LET sides(e) == Split(e, "=")
        form(e)  == parse_expr(Minus(Strip(sides(e)[1]), Strip(sides(e)[2])))
    IN  /\ Len(sides(a)) = 2 /\ Len(sides(b)) = 2
        /\ form(a).st = "ok" /\ form(b).st = "ok"
        /\ form(a).val = form(b).val

\* equations is equivalent to "x + 2 = 5, x = ?"
EquivalentToExpected(equations) ==
    LET equation_list == Split(equations, ",") IN
    /\ Len(equation_list) = 2
    /\ SameEquation(equation_list[1], <<"x", " ", "+", " ", "2", " ", "=", " ", "5">>)
    /\ Strip(equation_list[2]) = <<"x", " ", "=", " ", "?">>

\* C10: for the prediction "... [[eq1: x + 2 = 5]] [[answer: x]] The answer
\* is 3" the extracted equation set is equivalent to "x + 2 = 5, x = ?", the
\* solver's answer on it is 3.0 and the concise prediction is "3.00".
C10_EndToEnd ==
    dc_prediction = EndToEndPrediction =>
        /\ dc_pc \in {"solve", "format", "done"} =>
               /\ dc_equations.type = "str"
               /\ EquivalentToExpected(dc_equations.chars)
        /\ dc_pc \in {"format", "done"} =>
               dc_answer = Returned(PyFloat(FALSE, <<"3">>, <<>>))
        /\ dc_pc = "done" => dc_concise = Returned(<<"3", ".", "0", "0">>)

C10_Witness ==
    /\ dc_prediction = EndToEndPrediction
    /\ dc_pc = "done"
    /\ dc_concise = Returned(<<"3", ".", "0", "0">>)

\* the text holds more long variable names than there are unused letters
LettersExhausted(equations) ==
    /\ equations.type = "str"
    /\ Cardinality(long_var_names_of(equations.chars)) >
           Len(unused_chars_of(equations.chars))

\* C21: when the equation text has more distinct multi-character variable
\* names than unused letters, get_final_using_sympy returns 'invalid equations'.
C21_ExhaustionIsInvalidEquations ==
    Solved /\ LettersExhausted(dc_equations) => dc_answer = Returned(InvalidEquations)

\* what the solver returns then: the IndexError of line 22 comes back as 'bug'
C21_ExhaustionIsBug ==
    Solved /\ LettersExhausted(dc_equations) => dc_answer = Returned(BugTag)

\* equation_list[-1] of the equation-set string
LastEquation(equations) ==
    Split(equations.chars, ",")[Len(Split(equations.chars, ","))]

\* the stripped text before the first "=" of the last equation
GoalText(equations) == Strip(Split(LastEquation(equations), "=")[1])

\* the last equation has an "=" and the text on its left is no expression
UnparseableGoal(equations) ==
    /\ equations.type = "str"
    /\ ~LettersExhausted(equations)
    /\ Contains(LastEquation(equations), "=")
    /\ parse_expr(GoalText(equations)).st = "error"

\* C22: when the left-hand side of the last (goal) equation cannot be parsed,
\* as when an earlier equation cannot, get_final_using_sympy returns
\* 'invalid equations' and not 'bug'.
C22_UnparseableIsInvalidEquations ==
    Solved /\ UnparseableGoal(dc_equations) => dc_answer = Returned(InvalidEquations)

\* what the solver returns: the parse of line 141 is outside the inner try, and
\* a goal text that is not taken for a variable name comes back as 'bug'
C22_UnparseableGoalIsBug ==
    (/\ Solved
     /\ UnparseableGoal(dc_equations)
     /\ Len(GoalText(dc_equations)) # 2
     /\ ~ThreeLetters(Split(dc_equations.chars, ",")))
    => dc_answer = Returned(BugTag)

\* the part of C22 that holds: 'bug' never comes from an earlier equation
C22_BugOnlyFromGoalOrRenaming ==
    (Solved /\ dc_equations.type = "str" /\ dc_answer = Returned(BugTag))
    => LettersExhausted(dc_equations) \/ UnparseableGoal(dc_equations)

NanString == PyStr(<<"n", "a", "n">>)

\* C23: on the equation-set string 'nan' get_final_using_sympy returns the nan
\* value and no failure tag.
C23_NanStringGivesNan ==
    Solved /\ dc_equations = NanString => dc_answer = Returned(PyNaN)

\* what the solver returns: the word nan is renamed to a letter before line 120
\* looks for it, the single equation "a" has no value, and no input is
\* answered by nan
C23_NanIsNeverReturned ==
    Solved =>
        /\ dc_answer # Returned(PyNaN)
        /\ dc_equations = NanString => dc_answer = Returned(InvalidEquations)
        /\ dc_equations = PyNaN => dc_answer = Returned(BugTag)

\* the last equation is "<closed-form arithmetic> = ?"
ClosedFormGoal(equations) ==
    /\ equations.type = "str"
    /\ Len(Split(LastEquation(equations), "=")) = 2
    /\ Strip(Split(LastEquation(equations), "=")[2]) = <<"?">>
    /\ ClosedForm(GoalText(equations))

GoalValue(equations) == float_of_rat(parse_expr(GoalText(equations)).val.c)

NumberOfEquations(equations) == Len(Split(equations.chars, ","))

\* line 122 on the text line 118 leaves (the letters chosen do not matter here)
RenamedList(equations) ==
    Split(simplify_variables(
              equations.chars,
              CHOOSE q \in ListsOf(long_var_names_of(equations.chars)) : TRUE
          ).value.equations, ",")

\* C24 as stated: a last equation "<closed form> = ?" is answered by the value
\* of the closed form, whatever its length and whatever the earlier equations.
C24_ClosedFormGoalOfAnyLength ==
    Solved /\ ClosedFormGoal(dc_equations) => dc_answer = Returned(GoalValue(dc_equations))

\* C24 amended: a last equation "<closed form> = ?" is answered by the value
\* of the closed form when no equation holds three letters in a row after the
\* renaming and the closed form is not exactly two characters long, or is the
\* only equation.  A closed form of exactly two characters after earlier
\* equations is taken for the name of the goal variable and the answer is
\* 'no solution' or 'invalid equations'; three letters in a row in any
\* equation give 'invalid equations'; a failed renaming gives a failure tag.
C24_ClosedFormGoalValue ==
    Solved /\ ClosedFormGoal(dc_equations) =>
        IF LettersExhausted(dc_equations) THEN dc_answer.value \in FailureTags
        ELSE IF ThreeLetters(RenamedList(dc_equations))
        THEN dc_answer = Returned(InvalidEquations)
        ELSE IF Len(GoalText(dc_equations)) = 2 /\ NumberOfEquations(dc_equations) > 1
        THEN dc_answer \in {Returned(NoSolution), Returned(InvalidEquations)}
        ELSE dc_answer = Returned(GoalValue(dc_equations))

\* "x = 2 + 3, 1 + 2 + 3 = ?" is answered by 6.0
C24_Witness ==
    /\ Solved
    /\ ClosedFormGoal(dc_equations)
    /\ NumberOfEquations(dc_equations) = 2
    /\ GoalText(dc_equations) = <<"1", " ", "+", " ", "2", " ", "+", " ", "3">>
    /\ dc_answer = Returned(PyFloat(FALSE, <<"6">>, <<>>))

\* C25: the single-equation shortcut comes before the no-goal check: a set of
\* one equation is never answered by 'no goal found' or 'no solution', and
\* 'no goal found' is returned only for a set of two or more equations whose
\* last equation holds no "=" and is neither purely alphabetic nor exactly two
\* characters long.
C25_ShortcutBeforeNoGoal ==
    Solved /\ dc_equations.type = "str" =>
        /\ NumberOfEquations(dc_equations) = 1 =>
               dc_answer \notin {Returned(NoGoalFound), Returned(NoSolution)}
        /\ dc_answer = Returned(NoGoalFound) =>
               /\ NumberOfEquations(dc_equations) >= 2
               /\ ~Contains(LastEquation(dc_equations), "=")
               /\ ~IsAlphaStr(GoalText(dc_equations))
               /\ Len(GoalText(dc_equations)) # 2

\* the single equation "5" has no goal variable and is answered by 5.0
C25_Witness ==
    /\ Solved
    /\ dc_equations = PyStr(<<"5">>)
    /\ goal_detection(<<"5">>, <<"5">>) = Goal(<<>>, <<>>)
    /\ dc_answer = Returned(Five)

\* the goal the solver detects on the renamed text
DetectedGoal(equations) ==
    goal_detection(RenamedList(equations)[Len(RenamedList(equations))],
                   Strip(Split(RenamedList(equations)[Len(RenamedList(equations))], "=")[1]))

\* the call reaches the loop of line 161
ReachesLoop(equations) ==
    /\ equations.type = "str"
    /\ ~LettersExhausted(equations)
    /\ ~ThreeLetters(RenamedList(equations))
    /\ NumberOfEquations(equations) >= 2
    /\ ~DetectedGoal(equations).finished
    /\ DetectedGoal(equations).goal_var # <<>>

\* the equation has no "?"
Usable(eq) == ~Contains(eq, "?")

\* the expression lhs - (rhs) of an equation, an error when it has no "="
AsExpression(eq) ==
    IF Len(Split(eq, "=")) < 2 THEN ParseError
    ELSE parse_expr(Minus(Strip(Split(eq, "=")[1]), Strip(Split(eq, "=")[2])))

\* the goal expression, then the usable equations among the first k, in order
ConstraintsUpTo(equations, k) ==
    LET usable == SelectSeq([i \in 1..k |-> i],
                            LAMBDA i : Usable(RenamedList(equations)[i]))
    IN  DetectedGoal(equations).list
        \o [j \in 1..Len(usable) |-> AsExpression(RenamedList(equations)[usable[j]]).val]

\* the value of the goal variable in the first k equations, if they fix it
ValueUpTo(equations, k) ==
    solve_for(ConstraintsUpTo(equations, k), GoalSymbol(DetectedGoal(equations).goal_var))

\* the first k equations are the first to fix the goal or to hold a usable
\* equation that is no equation
EndsAt(equations, k) ==
    /\ Usable(RenamedList(equations)[k])
    /\ \/ AsExpression(RenamedList(equations)[k]).st # "ok"
       \/ ValueUpTo(equations, k).ok

\* the answer read off the prefixes K that end the loop
PrefixAnswer(equations, K) ==
    IF K = {} THEN Returned(NoSolution)
    ELSE IF AsExpression(RenamedList(equations)[Min(K)]).st # "ok"
    THEN Returned(InvalidEquations)
    ELSE Returned(float_of_rat(ValueUpTo(equations, Min(K)).val))

\* C26: in the incremental solve the equations are added in list order, the
\* last one is never added, those with "?" are skipped, and the answer is the
\* value of the goal in the shortest prefix that fixes it: later equations are
\* not consulted, and 'no solution' is returned only when no prefix fixes it.
C26_ShortestDeterminingPrefix ==
    Solved /\ ReachesLoop(dc_equations) =>
        dc_answer = PrefixAnswer(dc_equations,
                                 {k \in 1..(NumberOfEquations(dc_equations) - 1) :
                                     EndsAt(dc_equations, k)})

\* "x = 2, (x = 3, x = ?": the first equation fixes x, the second is never parsed
C26_Witness ==
    /\ Solved
    /\ ReachesLoop(dc_equations)
    /\ NumberOfEquations(dc_equations) = 3
    /\ ValueUpTo(dc_equations, 1).ok
    /\ AsExpression(RenamedList(dc_equations)[2]).st = "error"
    /\ dc_answer = Returned(PyFloat(FALSE, <<"2">>, <<>>))

-----------------------------------------------------------------------------
(* Properties of the extractor                                             *)

\* no "[[" is followed on its line by a "]]"
NoFragment(text) ==
    ~\E i, j \in 1..Len(text) :
        /\ OccursAt(text, OpenTag, i)
        /\ j >= i + 2
        /\ OccursAt(text, CloseTag, j)
        /\ \A n \in (i + 2)..(j - 1) : text[n] # "\n"

\* C11: a prediction text with no [[ ... ]] fragment is returned by
\* get_declarative_equations exactly as given.
C11_NoFragmentUnchanged ==
    [][dc_pc = "extract" /\ NoFragment(dc_prediction)
          => dc_equations' = PyStr(dc_prediction)]_vars

C11_Witness ==
    /\ dc_pc = "solve"
    /\ Len(dc_prediction) > 0
    /\ dc_prediction[1] = " "
    /\ NoFragment(dc_prediction)
    /\ dc_equations = PyStr(dc_prediction)

Extracted == dc_pc # "extract" /\ ~NoFragment(dc_prediction)

\* the comma-separated tokens the second pass iterates over (line 71)
PeanoTokens(prediction) ==
    Split(reformat_incre_equations(
              [i \in 1..Len(findall_from(prediction, 1)) |->
                  clean_equation_text(findall_from(prediction, 1)[i])]), ",")

HasAnswer(token) == HasSub(token, AnswerTag)

HasEq(token) == HasSub(token, EqTag)

AfterTag(token, tag) == SubSeq(token, IndexSub(token, tag) + Len(tag), Len(token))

\* what a surviving token contributes according to C18
Contribution(token) ==
    IF HasAnswer(token) THEN Strip(AfterTag(token, AnswerTag)) \o <<" ", "=", " ", "?">>
    ELSE AfterTag(token, EqTag)

RECURSIVE JoinedContributions(_, _)
JoinedContributions(tokens, i) ==
    IF i > Len(tokens) THEN <<>>
    ELSE IF i = Len(tokens) THEN Contribution(tokens[i])
    ELSE Contribution(tokens[i]) \o <<",", " ">> \o JoinedContributions(tokens, i + 1)

Surviving(tokens) == SelectSeq(tokens, LAMBDA t : HasAnswer(t) \/ HasEq(t))

\* C18: in the second pass every token containing "answer" contributes its
\* trimmed text after "answer" followed by " = ?", every token containing "eq"
\* its text after "eq", the others are dropped, and the contributions are
\* joined with ", " in their order of appearance.
C18_TokensByTag ==
    Extracted =>
        dc_equations = PyStr(JoinedContributions(Surviving(PeanoTokens(dc_prediction)), 1))

\* what the second pass keeps of C18: the same, for tokens that do not hold both
\* tags and have some text after "eq"
C18_TokensWithOneTag ==
    (/\ Extracted
     /\ \A i \in 1..Len(PeanoTokens(dc_prediction)) :
           LET token == PeanoTokens(dc_prediction)[i]
           IN  /\ ~(HasAnswer(token) /\ HasEq(token))
               /\ HasEq(token) => Len(AfterTag(token, EqTag)) > 0)
    => dc_equations = PyStr(JoinedContributions(Surviving(PeanoTokens(dc_prediction)), 1))

\* the equations of a comma-separated string; the empty string holds none
EquationsOf(eq_list) == IF eq_list = <<>> THEN <<>> ELSE Split(eq_list, ",")

EqualsSigns(eq) == Cardinality({i \in 1..Len(eq) : eq[i] = "="})

\* C19: when at least one [[ ... ]] fragment is found, every equation of the
\* comma-separated string returned holds exactly one "=".
C19_OneEqualsSign ==
    Extracted =>
        \A i \in 1..Len(EquationsOf(dc_equations.chars)) :
            EqualsSigns(EquationsOf(dc_equations.chars)[i]) = 1

\* a token as the few-shot examples write it: an equation with one "=" after
\* "eq", a goal with no "=" after "answer", or a token with neither tag
WellFormedToken(token) ==
    IF HasEq(token) THEN EqualsSigns(AfterTag(token, EqTag)) = 1
    ELSE HasAnswer(token) => EqualsSigns(AfterTag(token, AnswerTag)) = 0

\* what the extractor keeps of C19: it adds one "=" to a goal and none to an
\* equation, so well-formed tokens give equations with exactly one "="
C19_OneEqualsSignWhenWellFormed ==
    (/\ Extracted
     /\ \A i \in 1..Len(PeanoTokens(dc_prediction)) :
           WellFormedToken(PeanoTokens(dc_prediction)[i]))
    => \A i \in 1..Len(EquationsOf(dc_equations.chars)) :
           EqualsSigns(EquationsOf(dc_equations.chars)[i]) = 1

-----------------------------------------------------------------------------
(* Properties of the variable simplification                               *)

Simplified == sv_pc = "done" /\ sv_result.raised = "none"

\* C12: simplify_variables maps no two distinct long variable names to the
\* same letter, whenever the unused letters suffice for the long names.
C12_DistinctLetters ==
    /\ sv_pc = "done" /\ Len(sv_names) <= Len(unused_chars_of(sv_equations))
           => sv_result.raised = "none"
    /\ Simplified =>
           /\ DOMAIN sv_result.value.var_mapping = long_var_names_of(sv_equations)
           /\ \A u, v \in DOMAIN sv_result.value.var_mapping :
                  u # v => sv_result.value.var_mapping[u] # sv_result.value.var_mapping[v]

\* two long names took the last two unused letters
C12_Witness ==
    /\ Simplified
    /\ Cardinality(DOMAIN sv_result.value.var_mapping) = 2
    /\ Len(unused_chars_of(sv_equations)) = 2
    /\ {sv_result.value.var_mapping[v] : v \in DOMAIN sv_result.value.var_mapping} = {"y", "z"}

\* the lower-case letters written in text as a variable of one letter: alone,
\* or right after a number as in 2a
SingleLetterVariables(text) ==
    {text[i] : i \in {n \in 1..Len(text) :
        /\ text[n] \in Range(Lowercase)
        /\ n = Len(text) \/ text[n + 1] \notin WordChars
        /\ \E m \in 1..n :
              /\ \A d \in m..(n - 1) : text[d] \in Digits
              /\ m = 1 \/ text[m - 1] \notin WordChars}}

AssignedLetters == {sv_result.value.var_mapping[v] : v \in DOMAIN sv_result.value.var_mapping}

\* C20: no letter that simplify_variables assigns to a long name is a
\* one-letter variable of the equation text, standing alone or written next
\* to a digit.
C20_NoCollision ==
    Simplified => AssignedLetters \cap SingleLetterVariables(sv_equations) = {}

\* the part of C20 that holds: no assigned letter is a one-letter name that
\* stands alone in the text
C20_NoCollisionStandingAlone ==
    Simplified => \A c \in AssignedLetters : <<c>> \notin var_names_of(sv_equations)

-----------------------------------------------------------------------------
(* Properties of a sample                                                  *)

\* the engine call raised, or the binary exited with a code other than 0
EngineFailed == sm_engine.kind = "raises" \/ (sm_cpp /\ sm_engine.returncode # 0)

\* C13: when the engine call of a sample fails, the sample's concise
\* prediction is "bug", in every strategy of v2 and v3.
C13_FailedEngineGivesBug ==
    sm_pc = "done" /\ sm_method # "none" /\ EngineFailed => sm_concise = Returned(Bug)

\* the part of C13 that holds: the strategies of v3, and the program-aided
\* strategy of v2
C13_FailedEngineGivesBugV3OrPal ==
    sm_pc = "done" /\ EngineFailed /\ (sm_version = "v3" \/ sm_method = "pal")
        => sm_concise = Returned(Bug)

\* the solver stayed inside the algebra engine of the model
SampleWithinModel ==
    sm_pc = "done" => sm_concise.raised = "none"

Executed == sm_pc \in {"conclude", "done"} /\ sm_process # NoProcess

\* C14: run_code_with_subprocess_timeout raises nothing; it returns the
\* stripped standard output when the program exits with code 0 within the
\* timeout, and "bug" on a timeout, another exit code or an error.
C14_OutputOrBug ==
    Executed =>
        /\ sm_executed.raised = "none"
        /\ sm_executed.value =
              IF sm_process.kind = "exited" /\ sm_process.returncode = 0
              THEN Strip(sm_process.stdout) ELSE Bug

\* the part of C14 that holds: the same, once the script file is written
C14_OutputOrBugOnceWritten ==
    Executed /\ ~Contains(sm_code, Surrogate) =>
        /\ sm_executed.raised = "none"
        /\ sm_executed.value =
              IF sm_process.kind = "exited" /\ sm_process.returncode = 0
              THEN Strip(sm_process.stdout) ELSE Bug

-----------------------------------------------------------------------------
(* Properties of the script file                                           *)

\* C29: once run_code_with_subprocess_timeout has returned, the script file
\* it created is gone, whether the program exited with code 0 or another
\* code, ran out of time, or could not be launched.
C29_ScriptFileRemoved ==
    Executed /\ sm_executed.raised = "none" => sm_tempfile = "removed"

\* the program ran out of time and the file is gone
C29_Witness ==
    /\ Executed
    /\ sm_process = TimedOut
    /\ sm_executed = Returned(Bug)
    /\ sm_tempfile = "removed"

\* the call that does not return: the error raised while the script is
\* written leaves the file behind
ScriptFileLeftWhenRaised ==
    Executed /\ sm_executed.raised # "none" => sm_tempfile = "exists"

-----------------------------------------------------------------------------
(* Properties of the batch                                                 *)

OutputsReturned == bt_pc \in {"consume", "returned"}

\* C28: run_llm of utils/v2 returns N_ITERATIONS outputs (one for the
\* decider), the output of pass i at position i and "-1" where the call of
\* the pass failed; run_cot, run_declarative and run_pal return, and return
\* one concise prediction per output, the prediction of output i at
\* position i.
C28_NoSampleLost ==
    /\ bt_pc # "raised"
    /\ OutputsReturned =>
          /\ Len(bt_outputs) = iterations_of(bt_method = "decider")
          /\ Len(bt_engines) = Len(bt_outputs)
          /\ \A i \in 1..Len(bt_outputs) :
                /\ bt_outputs[i] = run_llm_v2(bt_cpp, bt_engines[i])
                /\ failed_call(bt_cpp, bt_engines[i]) => bt_outputs[i] = EngineFailureV2
    /\ bt_pc = "returned" =>
          /\ Len(bt_concise) = Len(bt_outputs)
          /\ Len(bt_choices) = Len(bt_outputs)
          /\ \A i \in 1..Len(bt_outputs) :
                bt_concise[i] = concise_of(bt_method, bt_outputs[i], bt_choices[i]).value

\* a batch of the binary returned with a failed call before a successful one
C28_Witness ==
    /\ bt_pc = "returned"
    /\ bt_method = "pal"
    /\ bt_cpp
    /\ Len(bt_concise) = N_ITERATIONS
    /\ failed_call(bt_cpp, bt_engines[1])
    /\ bt_outputs[1] = EngineFailureV2
    /\ bt_concise[1] = Bug
    /\ ~failed_call(bt_cpp, bt_engines[2])
    /\ bt_concise[2] = <<"5", ".", "0", "0">>

-----------------------------------------------------------------------------
(* Properties of the concise prediction of run_declarative                 *)

TagTexts == {t.chars : t \in FailureTags}

\* C30: whatever the solver returned (a float, nan, a failure tag), the
\* concise prediction of run_declarative is "bug" or a two-decimal string
\* with comma grouping; a failure tag other than "bug" is never handed on.
C30_ConciseIsCanonical ==
    dc_pc = "done" =>
        /\ dc_concise.raised = "none"
        /\ \/ dc_concise.value = Bug
           \/ IsTwoDecimalForm(dc_concise.value)
        /\ dc_concise.value \notin TagTexts \ {Bug}
        /\ dc_answer.value \in FailureTags \cup {PyNaN} => dc_concise.value = Bug

\* a float of seven integer digits was grouped and given two decimals
C30_Witness ==
    /\ dc_pc = "done"
    /\ dc_answer = Returned(PyFloat(FALSE, <<"1", "2", "3", "4", "5", "6", "7">>, <<"5">>))
    /\ dc_concise = Returned(<<"1", ",", "2", "3", "4", ",", "5", "6", "7", ".", "5", "0">>)

====
